---- MODULE Spec2Model ----
(***************************************************************************)
(* A model of the gorilix actor runtime: the DefaultActor mailbox, worker  *)
(* and stop protocol (actor/actor.go) and the DefaultSupervisor restart    *)
(* engine (supervisor/supervisor.go, supervisor/strategy.go).              *)
(*                                                                         *)
(* SpecActor explores one DefaultActor with concurrent senders and         *)
(* stoppers; SpecSup explores one DefaultSupervisor with its children.     *)
(***************************************************************************)
EXTENDS Integers, Sequences, FiniteSets, TLC

(***************************************************************************)
(* Bounds of the exploration.                                              *)
(***************************************************************************)
\* bufferSize handed to NewActor in SpecActor
MailboxCap == 2
\* sends each sender goroutine performs, one after the other
MaxSends == 3
\* explicit failure reports a user makes in SpecActor
MaxActorReports == 1

\* s1 sends a series of messages; s2 is a competing sender of one message
Senders == {"s1", "s2"}
SendsOf(s) == IF s = "s1" THEN MaxSends ELSE 1
Stoppers == {"k1", "k2"}

\* explicit failure reports (NotifyChildFailure calls) in SpecSup
MaxReports == 2
\* reports a user leaves waiting in the supervisor's mailbox
MaxPending == 1
\* successful AddChild calls in SpecSup
MaxAdds == 2
\* explicit failure reports in SpecRestart
MaxRestartReports == 4
\* successful AddChild calls in SpecRestart
MaxRestartAdds == 1
\* last tick of the clock in SpecRestart (one tick is one second)
MaxRestartTime == 1
\* explicit failure reports in SpecOrder
MaxOrderReports == 1
\* successful AddChild calls in SpecOrder
MaxOrderAdds == 2
\* explicit failure reports in SpecGate
MaxGateReports == 3
\* successful AddChild calls in SpecGate
MaxGateAdds == 1
\* last tick of the clock in SpecGate
MaxGateTime == 2
\* calls a user makes on the breaker in SpecBreaker
MaxBreakerCalls == 4
\* last tick of the clock in SpecBreaker
MaxBreakerTime == 2
\* SpawnGenServer calls that reach genserver.Start in SpecNames
MaxSpawns == 2
\* System.Monitor calls that return nil in SpecSystem
MaxMonitorCalls == 1
\* NotifyFailure calls in SpecSystem
MaxNotifies == 2
\* System.Monitor calls that return nil in SpecCleanup
MaxCleanupMonitors == 1
\* NotifyFailure calls in SpecCleanup
MaxCleanupNotifies == 2
\* System.Monitor calls that return nil in SpecStop
MaxStopMonitors == 1
\* NotifyFailure calls in SpecStop
MaxStopNotifies == 1

None == "none"
NoErr == "nil"
\* time.Time{}: the zero instant, before every instant an exploration holds
NoTime == -1000

Ids == {"A", "B"}
Errs == {NoErr, "boom"}
RestartTypes == {"Permanent", "Temporary", "Transient"}
\* the goroutines that run DefaultSupervisor.Stop: a user, and the
\* "go func() { _ = s.Stop() }()" of handleChildFailure
StopCallers == {"user", "async"}

VARIABLES
    \* ---- DefaultActor (actor/actor.go:27-39) ----
    mailbox,        \* buffered channel content, head first
    mailboxClosed,  \* close(a.mailbox) has run
    ctxDone,        \* a.cancel() has run: a.ctx.Done() is closed
    stopped,        \* a.stopped
    lastError,      \* a.lastError
    mu,             \* holder of a.mu's write lock, or None
    workerPc,       \* processMessages: "select", "receiver", "setLastError", "done"
    workerMsg,      \* the message the worker is handling
    \* ---- goroutines calling Receive ----
    sendPc,         \* per sender: "idle", "select1", "select2", "panicked"
    sendSeq,        \* per sender: number of sends started
    sendCtx,        \* per sender: [hasDeadline, expired] of the caller's ctx
    timerFired,     \* per sender: the 100 ms timer of the current send has fired
    sendAfterStop,  \* per sender: the current send began after a Stop() returned
    sendResults,    \* per sender: results of the finished sends, in order
    \* ---- goroutines calling Stop ----
    stopPc,         \* per stopper: "idle", "cancel", "wait", "returned"
    \* ---- observation ----
    enqueued,       \* every message put into the mailbox, in order
    delivered,      \* every message the receiver was invoked on, in order
    crashed,        \* a goroutine panicked: the process is gone
    \* ---- DefaultSupervisor (supervisor/supervisor.go:54-65) ----
    strategy,       \* the DefaultStrategy's parameters (never change)
    cb,             \* the strategy's DefaultCircuitBreaker
    status,         \* "Running", "Restarting", "Stopping", "Stopped"
    children,       \* id -> generation of the child's actor, 0 when absent
    childRefs,      \* id -> generation of the actor the ActorRef wraps, 0 when absent
    childSpecs,     \* id -> RestartType of the ChildSpec, None when absent
    childOrder,     \* sequence of ids
    restartHistory, \* sequence of timestamps
    lastFailure,    \* s.lastFailure
    \* ---- the supervisor's embedded DefaultActor ----
    supMailbox,     \* queued childFailureMessages
    supStopped,     \* its stopped flag (set together with the cancel)
    supMu,          \* holder of its a.mu, or None
    supWorkerPc,    \* "select", "setLastError", "done"
    supWorkerErr,   \* the error processMessage returned
    supLastError,   \* its lastError
    \* ---- child actors ----
    created,        \* id -> number of actors CreateFunc has made for the id
    runningActors,  \* the actors <<id, generation>> that are not stopped
    \* ---- goroutines ----
    supStopPc,      \* per Stop caller: "none", "begin", "remove", "finish",
                    \*   "actorStop", "wait", "returned"
    stopChildIDs,   \* per Stop caller: the rest of its childIDs copy
    stopSnapshot,   \* per Stop caller: the child actors at the time of the call
    retries,        \* the delayed-retry goroutines of handleChildFailure
    now,            \* the clock, in ticks
    \* ---- observation ----
    reports,        \* NotifyChildFailure calls made by users
    adds,           \* successful AddChild calls
    handled,        \* per handleChildFailure call, in order: the child, its
                    \*   RestartType, the time, the state ShouldAllow found the
                    \*   breaker in (None when not consulted), the ids whose
                    \*   CreateFunc failed and what the call did
    notifyReturned, \* the values NotifyChildFailure has returned to users
    cbCalls,        \* per call a user makes on a breaker, in order: the method,
                    \*   the time, what it returned and the state it left
    \* ---- MonitorRegistry (unnamed/part_000:30-35) ----
    monitors,       \* monitored id -> monitor id -> link kind, None when absent
    monitoring,     \* monitor id -> monitored id -> link kind, None when absent
    regStuck,       \* a writer waits for r.mu behind a reader that waits
                    \*   behind the writer: r.mu is never granted again
    \* ---- NamedRegistry (system/system.go:394-398) ----
    nameToActor,    \* name -> the registered ActorRef's actor, None when absent
    actorToName,    \* actor id -> name, None when absent
    \* ---- ActorSystem (system/system.go:46-58) ----
    sysRunning,     \* s.running
    sysMu,          \* holder of s.mu's write lock, or None
    registry,       \* id -> the registered ActorRef's actor, None when absent
    \* ---- GenServers ----
    gsCreated,      \* id -> number of servers genserver.New has made for the id
    gsInitCalled,   \* the servers <<id, n>> whose InitFunc has returned nil
    spawnCall,      \* the SpawnGenServer call in progress, or None
    \* ---- goroutines calling NotifyFailure ----
    notifyPc,       \* per caller: "idle", "getMonitors", "send",
                    \*   "unregister", "cleanup"
    notifyActor,    \* per caller: the actorID of its call
    notifyTargets,  \* per caller: the monitors it has still to send to
    \* ---- observation ----
    notifies,       \* NotifyFailure calls started
    notified,       \* per returned NotifyFailure call, in order: the actorID,
                    \*   the result and monitorCalls at the return
    sends,          \* per Send of a MonitorMessage, in order: the monitor, the
                    \*   monitored actor, whether Send returned nil and
                    \*   whether the monitored actor was running
    monitorCalls,   \* monitor id -> monitored id -> number of System.Monitor
                    \*   calls that returned nil
    owed,           \* the links <<monitor, monitored>> that existed when the
                    \*   monitored actor's Stop ran
    spawned,        \* per returned SpawnGenServer call, in order: the id, the
                    \*   name and the result
    gsSends,        \* the servers a user has sent a message to, each with
                    \*   whether its init had completed
    \* ---- MonitorMessages ----
    monMsgs,        \* per MonitorMessage NotifyMonitors has allocated, in
                    \*   order: its fields MonitoredID and MonitorID now
    notifyMsg,      \* per caller: the index in monMsgs of its call's message
    inbox,          \* id -> the messages (indexes in monMsgs) in the
                    \*   mailbox of the actor registered under id
    processed,      \* per MonitorMessage handed to a receiver, in order:
                    \*   the receiving actor and the fields it read
    \* ---- a caller of DefaultStrategy.CalculateBackoff ----
    calc,           \* the strategy's backoff fields, the restart count and,
                    \*   once the calls have returned, the delays for that
                    \*   count and for the next one
    \* ---- goroutines that share one circuit breaker ----
    shPc,           \* per caller: "idle", or "write" inside RecordFailure
                    \*   between the read and the write of cb.failures++
    shReg,          \* per caller: the value of cb.failures it has read
    shRecorded,     \* RecordFailure calls returned since the last Reset
    shOther,        \* GetState, RecordSuccess and Reset calls returned
    \* ---- one GenServer (genserver package) ----
    srvState,       \* g.state
    srvQueue,       \* the mailbox of the server's actor
    srvWorkerPc,    \* the actor's worker: "select", "handling" (inside
                    \*   processMessage, holding g.mu) or "done"
    srvCur,         \* the message processMessage is handling
    srvStopPc,      \* per caller of Stop: "idle", "terminate", "close",
                    \*   "actorStop", "wait", "returned" or "panicked"
    srvSnap,        \* per caller of Stop: the state it read under g.mu
    srvTerminated,  \* per call of TerminateFunc, in order: the caller of
                    \*   Stop, the reason and the state passed
    srvClosed,      \* terminateCh is closed
    srvActorStopped,\* a.stopped of the server's actor (its context is
                    \*   cancelled)
    srvActorMu,     \* the Stop caller that holds a.mu while it waits for
                    \*   the worker, or None
    srvHandled,     \* per message a handler has finished, in order: the
                    \*   message, whether the reply was buffered and
                    \*   whether TerminateFunc had been called before
    srvCasts,       \* MakeCast calls made
    callPc,         \* per MakeCallSync caller: "idle" or "wait" (in the
                    \*   select on the reply channel and the deadline)
    callSeq,        \* per caller: the number of its calls so far
    srvReplies,     \* the calls <<caller, n>> whose reply channel holds a
                    \*   reply
    callResults,    \* per MakeCallSync call returned, in order: the call,
                    \*   what it returned and the reply it carried
    \* ---- Registry (system/registry.go) ----
    regActors,      \* the keys of r.actors
    actorsByType,   \* type -> the list of actor ids
    actorTypes,     \* actor id -> its type, None when absent
    actorTags,      \* tag -> the list of actor ids
    actorsByTag,    \* actor id -> the list of its tags
    regCalls,       \* Register, Unregister and TagActor calls made
    lastCast        \* the last BroadcastToType or BroadcastToTag call: its
                    \*   key, the actors that had the type or tag, the
                    \*   actors sent to, one entry per send, and the result

actorVars == <<mailbox, mailboxClosed, ctxDone, stopped, lastError, mu,
               workerPc, workerMsg, sendPc, sendSeq, sendCtx, timerFired,
               sendAfterStop, sendResults, stopPc, enqueued, delivered, crashed>>

supVars == <<strategy, cb, status, children, childRefs, childSpecs,
             childOrder, restartHistory, lastFailure, supMailbox, supStopped,
             supMu, supWorkerPc, supWorkerErr, supLastError, created,
             runningActors, supStopPc, stopChildIDs, stopSnapshot, retries,
             now, reports, adds, handled, notifyReturned, cbCalls>>

monVars == <<monitors, monitoring, regStuck>>

nameVars == <<nameToActor, actorToName>>

gsVars == <<gsCreated, gsInitCalled, spawnCall, spawned, gsSends>>

msgVars == <<monMsgs, notifyMsg, inbox, processed>>

notifyVars == <<notifyPc, notifyActor, notifyTargets, notifies, notified,
                sends, monitorCalls, owed, msgVars>>

shareVars == <<shPc, shReg, shRecorded, shOther>>

serverVars == <<srvState, srvQueue, srvWorkerPc, srvCur, srvStopPc, srvSnap,
                srvTerminated, srvClosed, srvActorStopped, srvActorMu,
                srvHandled, srvCasts, callPc, callSeq, srvReplies,
                callResults>>

typedVars == <<regActors, actorsByType, actorTypes, actorTags, actorsByTag,
               regCalls, lastCast>>

otherVars == <<calc, shareVars, serverVars, typedVars>>

sysVars == <<monVars, nameVars, gsVars, notifyVars, sysRunning, sysMu, registry,
             otherVars>>

Msg(s, n) == <<s, n>>

\* context.Background(): no deadline
NoCtx == [hasDeadline |-> FALSE, expired |-> FALSE]

\* the error the receive function returns for message m, when it fails
ErrOf(m) == m

\* a.lastError before any failure (nil), comparable with ErrOf values
NilError == <<>>

StopReturned == \E k \in Stoppers : stopPc[k] = "returned"

\* IsRunning(): !a.stopped under the read lock
IsRunning == ~stopped

ActorInit ==
    /\ mailbox = <<>>
    /\ mailboxClosed = FALSE
    /\ ctxDone = FALSE
    /\ stopped = FALSE
    /\ lastError = NilError
    /\ mu = None
    /\ workerPc = "select"
    /\ workerMsg = None
    /\ sendPc = [s \in Senders |-> "idle"]
    /\ sendSeq = [s \in Senders |-> 0]
    /\ sendCtx = [s \in Senders |-> NoCtx]
    /\ timerFired = [s \in Senders |-> FALSE]
    /\ sendAfterStop = [s \in Senders |-> FALSE]
    /\ sendResults = [s \in Senders |-> <<>>]
    /\ stopPc = [k \in Stoppers |-> "idle"]
    /\ enqueued = <<>>
    /\ delivered = <<>>
    /\ crashed = FALSE

(***************************************************************************)
(* processMessages: the worker goroutine.                                  *)
(***************************************************************************)
\* WorkerSelect taking the newest message of the mailbox instead of the oldest
WorkerSelect_Lifo ==
    /\ ~crashed
    /\ workerPc = "select"
    /\ \/ /\ Len(mailbox) > 0
          /\ workerMsg' = mailbox[Len(mailbox)]
          /\ mailbox' = SubSeq(mailbox, 1, Len(mailbox) - 1)
          /\ delivered' = Append(delivered, mailbox[Len(mailbox)])
          /\ workerPc' = "receiver"
       \/ /\ ctxDone
          /\ workerPc' = "done"
          /\ UNCHANGED <<workerMsg, mailbox, delivered>>
    /\ UNCHANGED <<mailboxClosed, ctxDone, stopped, lastError, mu, sendPc,
                   sendSeq, sendCtx, timerFired, sendAfterStop, sendResults,
                   stopPc, enqueued, crashed, supVars, sysVars>>

\* select { case msg := <-a.mailbox: ... case <-a.ctx.Done(): return }
WorkerSelect ==
    /\ ~crashed
    /\ workerPc = "select"
    /\ \/ /\ Len(mailbox) > 0
          /\ workerMsg' = Head(mailbox)
          /\ mailbox' = Tail(mailbox)
          /\ delivered' = Append(delivered, Head(mailbox))
          /\ workerPc' = "receiver"
       \/ /\ ctxDone
          /\ workerPc' = "done"
          /\ UNCHANGED <<workerMsg, mailbox, delivered>>
    /\ UNCHANGED <<mailboxClosed, ctxDone, stopped, lastError, mu, sendPc,
                   sendSeq, sendCtx, timerFired, sendAfterStop, sendResults,
                   stopPc, enqueued, crashed,
                   supVars, sysVars>>

\* err := a.receiver(a.ctx, msg); if err != nil { a.setLastError(err) }
WorkerReceiverReturn ==
    /\ ~crashed
    /\ workerPc = "receiver"
    /\ \E failed \in BOOLEAN :
          workerPc' = IF failed THEN "setLastError" ELSE "select"
    /\ UNCHANGED <<mailbox, mailboxClosed, ctxDone, stopped, lastError, mu,
                   workerMsg, sendPc, sendSeq, sendCtx, timerFired,
                   sendAfterStop, sendResults, stopPc, enqueued, delivered,
                   crashed,
                   supVars, sysVars>>

\* WorkerSetLastError with the worker returning after it has recorded the error
WorkerSetLastError_Exits ==
    /\ ~crashed
    /\ workerPc = "setLastError"
    /\ mu = None
    /\ lastError' = ErrOf(workerMsg)
    /\ workerPc' = "done"
    /\ UNCHANGED <<mailbox, mailboxClosed, ctxDone, stopped, mu, workerMsg,
                   sendPc, sendSeq, sendCtx, timerFired, sendAfterStop,
                   sendResults, stopPc, enqueued, delivered, crashed, supVars, sysVars>>

\* setLastError: a.mu.Lock(); a.lastError = err; a.mu.Unlock()
WorkerSetLastError ==
    /\ ~crashed
    /\ workerPc = "setLastError"
    /\ mu = None
    /\ lastError' = ErrOf(workerMsg)
    /\ workerPc' = "select"
    /\ UNCHANGED <<mailbox, mailboxClosed, ctxDone, stopped, mu, workerMsg,
                   sendPc, sendSeq, sendCtx, timerFired, sendAfterStop,
                   sendResults, stopPc, enqueued, delivered, crashed,
                   supVars, sysVars>>

(***************************************************************************)
(* Receive (ActorRef.Send): one goroutine per sender.                      *)
(***************************************************************************)
Finish(s, result) ==
    /\ sendResults' = [sendResults EXCEPT ![s] =
                          Append(@, [msg |-> Msg(s, sendSeq[s]), result |-> result])]
    /\ sendPc' = [sendPc EXCEPT ![s] = IF result = "Panic" THEN "panicked" ELSE "idle"]
    /\ crashed' = (result = "Panic")
    /\ sendCtx' = [sendCtx EXCEPT ![s] = NoCtx]
    /\ timerFired' = [timerFired EXCEPT ![s] = FALSE]

\* SendStart without the check of a.stopped
SendStart_NoStoppedCheck(s) ==
    /\ ~crashed
    /\ sendPc[s] = "idle"
    /\ sendSeq[s] < SendsOf(s)
    /\ mu = None
    /\ sendSeq' = [sendSeq EXCEPT ![s] = @ + 1]
    /\ sendAfterStop' = [sendAfterStop EXCEPT ![s] = StopReturned]
    /\ sendPc' = [sendPc EXCEPT ![s] = "select1"]
    /\ \E c \in {NoCtx, [hasDeadline |-> TRUE, expired |-> FALSE]} :
          sendCtx' = [sendCtx EXCEPT ![s] = c]
    /\ UNCHANGED <<mailbox, mailboxClosed, ctxDone, stopped, lastError, mu,
                   workerPc, workerMsg, timerFired, stopPc, enqueued,
                   delivered, crashed, sendResults, supVars, sysVars>>

\* a.mu.RLock(); if a.stopped { return ErrActorStopped }; a.mu.RUnlock()
\* the caller's ctx has no deadline or has one (DeadlineExpire may pass it at once)
SendStart(s) ==
    /\ ~crashed
    /\ sendPc[s] = "idle"
    /\ sendSeq[s] < SendsOf(s)
    /\ mu = None
    /\ sendSeq' = [sendSeq EXCEPT ![s] = @ + 1]
    /\ sendAfterStop' = [sendAfterStop EXCEPT ![s] = StopReturned]
    /\ IF stopped
       THEN /\ sendResults' = [sendResults EXCEPT ![s] =
                   Append(@, [msg |-> Msg(s, sendSeq[s] + 1), result |-> "ActorStopped"])]
            /\ UNCHANGED <<sendPc, sendCtx>>
       ELSE /\ sendPc' = [sendPc EXCEPT ![s] = "select1"]
            /\ \E c \in {NoCtx, [hasDeadline |-> TRUE, expired |-> FALSE]} :
                  sendCtx' = [sendCtx EXCEPT ![s] = c]
            /\ UNCHANGED sendResults
    /\ UNCHANGED <<mailbox, mailboxClosed, ctxDone, stopped, lastError, mu,
                   workerPc, workerMsg, timerFired, stopPc, enqueued,
                   delivered, crashed,
                   supVars, sysVars>>

\* case a.mailbox <- message: a send on a closed channel panics
SendCaseMailbox(s) ==
    /\ \/ mailboxClosed
       \/ Len(mailbox) < MailboxCap
    /\ IF mailboxClosed
       THEN /\ Finish(s, "Panic")
            /\ UNCHANGED <<mailbox, enqueued>>
       ELSE /\ mailbox' = Append(mailbox, Msg(s, sendSeq[s]))
            /\ enqueued' = Append(enqueued, Msg(s, sendSeq[s]))
            /\ Finish(s, "Ok")

\* case <-ctx.Done(): return ctx.Err()
SendCaseCtx(s) ==
    /\ sendCtx[s].expired
    /\ Finish(s, "DeadlineExceeded")
    /\ UNCHANGED <<mailbox, enqueued,
                   supVars, sysVars>>

\* case <-a.ctx.Done(): return ErrActorStopped
SendCaseActorCtx(s) ==
    /\ ctxDone
    /\ Finish(s, "ActorStopped")
    /\ UNCHANGED <<mailbox, enqueued,
                   supVars, sysVars>>

\* SendCaseTimer returning nil when the timer fires
SendCaseTimer_ReturnsNil(s) ==
    /\ timerFired[s]
    /\ Finish(s, "Ok")
    /\ UNCHANGED <<mailbox, enqueued>>

\* case <-timer.C: return ErrMailboxFull
SendCaseTimer(s) ==
    /\ timerFired[s]
    /\ Finish(s, "MailboxFull")
    /\ UNCHANGED <<mailbox, enqueued,
                   supVars, sysVars>>

Select1Ready(s) ==
    \/ mailboxClosed
    \/ Len(mailbox) < MailboxCap
    \/ sendCtx[s].expired
    \/ ctxDone

\* the first select: any ready case, else default (start the 100 ms timer)
SendSelect1(s) ==
    /\ ~crashed
    /\ sendPc[s] = "select1"
    /\ \/ SendCaseMailbox(s)
       \/ SendCaseCtx(s)
       \/ SendCaseActorCtx(s)
       \/ /\ ~Select1Ready(s)
          /\ sendPc' = [sendPc EXCEPT ![s] = "select2"]
          /\ UNCHANGED <<mailbox, enqueued, sendResults, crashed, sendCtx,
                         timerFired>>
    /\ UNCHANGED <<mailboxClosed, ctxDone, stopped, lastError, mu, workerPc,
                   workerMsg, sendSeq, sendAfterStop, stopPc, delivered,
                   supVars, sysVars>>

\* the second select: blocks until one of its four cases is ready
SendSelect2(s) ==
    /\ ~crashed
    /\ sendPc[s] = "select2"
    /\ \/ SendCaseMailbox(s)
       \/ SendCaseTimer(s)
       \/ SendCaseCtx(s)
       \/ SendCaseActorCtx(s)
    /\ UNCHANGED <<mailboxClosed, ctxDone, stopped, lastError, mu, workerPc,
                   workerMsg, sendSeq, sendAfterStop, stopPc, delivered,
                   supVars, sysVars>>

\* time.NewTimer(100 * time.Millisecond) fires
TimerFire(s) ==
    /\ ~crashed
    /\ sendPc[s] = "select2"
    /\ ~timerFired[s]
    /\ timerFired' = [timerFired EXCEPT ![s] = TRUE]
    /\ UNCHANGED <<mailbox, mailboxClosed, ctxDone, stopped, lastError, mu,
                   workerPc, workerMsg, sendPc, sendSeq, sendCtx,
                   sendAfterStop, sendResults, stopPc, enqueued, delivered,
                   crashed,
                   supVars, sysVars>>

\* the caller's deadline passes while the send is in progress
DeadlineExpire(s) ==
    /\ ~crashed
    /\ sendPc[s] \in {"select1", "select2"}
    /\ sendCtx[s].hasDeadline
    /\ ~sendCtx[s].expired
    /\ sendCtx' = [sendCtx EXCEPT ![s].expired = TRUE]
    /\ UNCHANGED <<mailbox, mailboxClosed, ctxDone, stopped, lastError, mu,
                   workerPc, workerMsg, sendPc, sendSeq, timerFired,
                   sendAfterStop, sendResults, stopPc, enqueued, delivered,
                   crashed,
                   supVars, sysVars>>

(***************************************************************************)
(* Stop: one goroutine per stopper.                                        *)
(***************************************************************************)
\* a.mu.Lock(); if a.stopped { return nil }; a.stopped = true
StopBegin(k) ==
    /\ ~crashed
    /\ stopPc[k] = "idle"
    /\ mu = None
    /\ IF stopped
       THEN /\ stopPc' = [stopPc EXCEPT ![k] = "returned"]
            /\ UNCHANGED <<mu, stopped>>
       ELSE /\ mu' = k
            /\ stopped' = TRUE
            /\ stopPc' = [stopPc EXCEPT ![k] = "cancel"]
    /\ UNCHANGED <<mailbox, mailboxClosed, ctxDone, lastError, workerPc,
                   workerMsg, sendPc, sendSeq, sendCtx, timerFired,
                   sendAfterStop, sendResults, enqueued, delivered, crashed,
                   supVars, sysVars>>

\* a.cancel()
StopCancel(k) ==
    /\ ~crashed
    /\ stopPc[k] = "cancel"
    /\ ctxDone' = TRUE
    /\ stopPc' = [stopPc EXCEPT ![k] = "wait"]
    /\ UNCHANGED <<mailbox, mailboxClosed, stopped, lastError, mu, workerPc,
                   workerMsg, sendPc, sendSeq, sendCtx, timerFired,
                   sendAfterStop, sendResults, enqueued, delivered, crashed,
                   supVars, sysVars>>

\* a.wg.Wait(); close(a.mailbox); return nil (the deferred a.mu.Unlock())
StopFinish(k) ==
    /\ ~crashed
    /\ stopPc[k] = "wait"
    /\ workerPc = "done"
    /\ mailboxClosed' = TRUE
    /\ mu' = None
    /\ stopPc' = [stopPc EXCEPT ![k] = "returned"]
    /\ UNCHANGED <<mailbox, ctxDone, stopped, lastError, workerPc, workerMsg,
                   sendPc, sendSeq, sendCtx, timerFired, sendAfterStop,
                   sendResults, enqueued, delivered, crashed,
                   supVars, sysVars>>

(***************************************************************************)
(* Strategy parameters and the circuit breaker (supervisor/strategy.go).   *)
(* Durations and timestamps are in ticks of one second.                    *)
(***************************************************************************)
\* NewStrategyWithOptions without an enabled breaker:
\* NewCircuitBreaker(9999, 24*time.Hour, 1*time.Millisecond, 1)
DisabledTripThreshold == 9999
DisabledFailureWindow == 86400
DisabledSuccessThreshold == 1

DisabledBreaker ==
    [tripThreshold |-> DisabledTripThreshold,
     failureWindow |-> DisabledFailureWindow,
     resetTimeout |-> 0,
     successThreshold |-> DisabledSuccessThreshold]

SmallBreaker ==
    [tripThreshold |-> 2, failureWindow |-> 2, resetTimeout |-> 1,
     successThreshold |-> 2]

\* a window that covers every report of an exploration
LongWindow == MaxRestartTime + 1

StrategyOf(kind, maxRestarts, timeInterval, terminate, backoff, breaker) ==
    [strategyType |-> kind,
     maxRestarts |-> maxRestarts,
     timeInterval |-> timeInterval,
     terminateOnMaxRestarts |-> terminate,
     backoffStrategy |-> backoff,
     baseBackoff |-> 1,
     maxBackoff |-> 1,
     jitterNum |-> 1,
     jitterDen |-> 5,
     breaker |-> breaker]

\* NewStrategy(OneForOne, 2, window): DefaultStrategyOptions
DefaultStrategy == StrategyOf("OneForOne", 2, LongWindow, TRUE, "NoBackoff", DisabledBreaker)

\* the strategies the specifications draw from
Strategies ==
    {DefaultStrategy,
     StrategyOf("OneForOne", 1, 1, TRUE, "NoBackoff", DisabledBreaker),
     StrategyOf("OneForAll", 0, 1, TRUE, "NoBackoff", DisabledBreaker),
     StrategyOf("RestForOne", 0, 1, TRUE, "NoBackoff", DisabledBreaker),
     StrategyOf("RestForOne", 1, 2, FALSE, "LinearBackoff", DisabledBreaker),
     StrategyOf("OneForOne", 0, 1, TRUE, "NoBackoff", SmallBreaker)}

\* NewCircuitBreaker: Closed, no failures, lastFailure the zero time
NewCircuitBreaker ==
    [state |-> "Closed", failures |-> 0, lastFailure |-> NoTime,
     lastStateChange |-> 0, consecutiveSuccess |-> 0]

\* GetState with the lazy transition taken at, not after, resetTimeout
CBGetState_AtTimeout(b, t) ==
    IF b.state = "Open" /\ t - b.lastStateChange >= strategy.breaker.resetTimeout
    THEN [b EXCEPT !.state = "HalfOpen", !.lastStateChange = t]
    ELSE b

\* GetState: Open becomes HalfOpen once resetTimeout has passed
CBGetState(b, t) ==
    IF b.state = "Open" /\ t - b.lastStateChange > strategy.breaker.resetTimeout
    THEN [b EXCEPT !.state = "HalfOpen", !.lastStateChange = t]
    ELSE b

\* ShouldAllow that admits in every state
CBShouldAllow_AllowsOpen(b) == TRUE

\* ShouldAllow, on the breaker GetState left behind
CBShouldAllow(b) == b.state \in {"Closed", "HalfOpen"}

\* RecordFailure
CBRecordFailure(b, t) ==
    LET n == IF b.lastFailure # NoTime /\ t - b.lastFailure > strategy.breaker.failureWindow
             THEN 1 ELSE b.failures + 1
        b1 == [b EXCEPT !.failures = n, !.lastFailure = t, !.consecutiveSuccess = 0]
    IN  IF b.state = "Closed" /\ n >= strategy.breaker.tripThreshold
        THEN [b1 EXCEPT !.state = "Open", !.lastStateChange = t]
        ELSE IF b.state = "HalfOpen"
             THEN [b1 EXCEPT !.state = "Open", !.lastStateChange = t]
             ELSE b1

\* Reset
CBReset(b, t) ==
    [b EXCEPT !.state = "Closed", !.failures = 0, !.lastStateChange = t,
              !.consecutiveSuccess = 0]

\* RecordSuccess
CBRecordSuccess(b, t) ==
    IF b.state = "HalfOpen"
    THEN IF b.consecutiveSuccess + 1 >= strategy.breaker.successThreshold
         THEN CBReset(b, t)
         ELSE [b EXCEPT !.consecutiveSuccess = @ + 1]
    ELSE b

Max(a, b) == IF a > b THEN a ELSE b
Min(a, b) == IF a < b THEN a ELSE b

RECURSIVE Pow2(_)
Pow2(n) == IF n <= 0 THEN 1 ELSE 2 * Pow2(n - 1)

\* CalculateBackoff: the delays it can return for a restart count; one value,
\* except under JitteredExponentialBackoff where rand.Float64 picks the jitter
CalculateBackoff(restarts) ==
    IF restarts <= 0 \/ strategy.backoffStrategy = "NoBackoff"
    THEN {0}
    ELSE LET base == strategy.baseBackoff
             exp == base * Pow2(restarts - 1)
             clamp(d) == Min(d, strategy.maxBackoff)
         IN  CASE strategy.backoffStrategy = "LinearBackoff" ->
                    {clamp(base * restarts)}
               [] strategy.backoffStrategy = "ExponentialBackoff" ->
                    {clamp(exp)}
               [] strategy.backoffStrategy = "JitteredExponentialBackoff" ->
                    LET j == (exp * strategy.jitterNum) \div strategy.jitterDen
                        top == IF j > 0 /\ (exp * strategy.jitterNum) % strategy.jitterDen = 0
                               THEN j - 1 ELSE j
                    IN  {clamp(Max(0, exp + d)) : d \in (0 - j) .. top}
               [] OTHER -> {0}

(***************************************************************************)
(* time.Duration is an int64 count of nanoseconds. A Duration is modelled  *)
(* as the eight bytes of its two's complement, lowest first, and the       *)
(* arithmetic of CalculateBackoff as the wrapping arithmetic of the        *)
(* machine.                                                                *)
(***************************************************************************)
DurationBytes == 8
Byte == 256

\* the bytes of the column sums cols, carries propagated upwards and the
\* carry out of the top byte lost
Carried(cols) ==
    LET s1 == cols[1]
        s2 == cols[2] + s1 \div Byte
        s3 == cols[3] + s2 \div Byte
        s4 == cols[4] + s3 \div Byte
        s5 == cols[5] + s4 \div Byte
        s6 == cols[6] + s5 \div Byte
        s7 == cols[7] + s6 \div Byte
        s8 == cols[8] + s7 \div Byte
    IN  <<s1 % Byte, s2 % Byte, s3 % Byte, s4 % Byte,
          s5 % Byte, s6 % Byte, s7 % Byte, s8 % Byte>>

\* time.Duration(n) for a natural number n
Duration(n) == Carried(<<n, 0, 0, 0, 0, 0, 0, 0>>)

\* a + b
Add64(a, b) == Carried(<<a[1] + b[1], a[2] + b[2], a[3] + b[3], a[4] + b[4],
                         a[5] + b[5], a[6] + b[6], a[7] + b[7], a[8] + b[8]>>)

\* a * m for a natural number m below 65536
MulShort(a, m) == Carried(<<a[1] * m, a[2] * m, a[3] * m, a[4] * m,
                            a[5] * m, a[6] * m, a[7] * m, a[8] * m>>)

\* a << 8k: the bytes move up and the highest k are lost
ShlBytes(a, k) ==
    SubSeq([i \in 1 .. k |-> 0] \o a, 1, DurationBytes)

\* a << k
Shl(a, k) ==
    IF k >= 8 * DurationBytes THEN Duration(0)
    ELSE ShlBytes(MulShort(a, Pow2(k % 8)), k \div 8)

\* a * time.Duration(n) for a natural number n
Mul64(a, n) ==
    Add64(ShlBytes(MulShort(a, n \div (Byte * Byte)), 2),
          MulShort(a, n % (Byte * Byte)))

\* a < 0
Negative64(a) == a[DurationBytes] >= Byte \div 2

\* a < b as signed integers: the signs differ and a is the negative one, or
\* they agree and a has the smaller byte at the highest place where the two
\* differ
Less64(a, b) ==
    IF Negative64(a) # Negative64(b) THEN Negative64(a)
    ELSE \E i \in 1 .. DurationBytes :
            /\ a[i] < b[i]
            /\ \A j \in i + 1 .. DurationBytes : a[j] = b[j]

\* CalculateBackoff on Durations, for NoBackoff, LinearBackoff and
\* ExponentialBackoff. Doubling restarts-1 times is a shift by restarts-1,
\* and a shift by 64 or more leaves zero
CalculateBackoffNs(backoffStrategy, baseBackoff, maxBackoff, restarts) ==
    IF restarts <= 0 \/ backoffStrategy = "NoBackoff"
    THEN Duration(0)
    ELSE LET backoff ==
                 CASE backoffStrategy = "LinearBackoff" ->
                        Mul64(baseBackoff, restarts)
                   [] backoffStrategy = "ExponentialBackoff" ->
                        Shl(baseBackoff, restarts - 1)
         IN  IF Less64(maxBackoff, backoff) THEN maxBackoff ELSE backoff

\* no caller of CalculateBackoff
NoCalc ==
    [pc |-> "idle", backoffStrategy |-> "NoBackoff", baseBackoff |-> Duration(0),
     maxBackoff |-> Duration(0), restarts |-> 0,
     delay |-> Duration(0), nextDelay |-> Duration(0)]

(***************************************************************************)
(* DefaultSupervisor (supervisor/supervisor.go).                           *)
(***************************************************************************)
Keys(m, absent) == {id \in Ids : m[id] # absent}

Range(seq) == {seq[i] : i \in 1 .. Len(seq)}

\* NewSupervisor(id, strategy)
SupInit(st) ==
    /\ strategy = st
    /\ cb = NewCircuitBreaker
    /\ status = "Running"
    /\ children = [id \in Ids |-> 0]
    /\ childRefs = [id \in Ids |-> 0]
    /\ childSpecs = [id \in Ids |-> None]
    /\ childOrder = <<>>
    /\ restartHistory = <<>>
    /\ lastFailure = NoErr
    /\ supMailbox = <<>>
    /\ supStopped = FALSE
    /\ supMu = None
    /\ supWorkerPc = "select"
    /\ supWorkerErr = NoErr
    /\ supLastError = NoErr
    /\ created = [id \in Ids |-> 0]
    /\ runningActors = {}
    /\ supStopPc = [p \in StopCallers |-> "none"]
    /\ stopChildIDs = [p \in StopCallers |-> <<>>]
    /\ stopSnapshot = [p \in StopCallers |-> {}]
    /\ retries = <<>>
    /\ now = 0
    /\ reports = 0
    /\ adds = 0
    /\ handled = <<>>
    /\ notifyReturned = {}
    /\ cbCalls = <<>>

\* AddChild: a call that returns an error (status not Running, id exists,
\* CreateFunc fails) changes nothing
AddChildBody(id, restartType) ==
    /\ status = "Running"
    /\ children[id] = 0
    /\ adds' = adds + 1
    /\ created' = [created EXCEPT ![id] = @ + 1]
    /\ runningActors' = runningActors \cup {<<id, created[id] + 1>>}
    /\ children' = [children EXCEPT ![id] = created[id] + 1]
    /\ childRefs' = [childRefs EXCEPT ![id] = created[id] + 1]
    /\ childSpecs' = [childSpecs EXCEPT ![id] = restartType]
    /\ childOrder' = Append(childOrder, id)
    /\ UNCHANGED <<strategy, cb, status, restartHistory, lastFailure,
                   supMailbox, supStopped, supMu, supWorkerPc, supWorkerErr,
                   supLastError, supStopPc, stopChildIDs, stopSnapshot,
                   retries, now, reports, handled,
                   actorVars, notifyReturned, cbCalls>>

\* AddChild(spec) called on a supervisor by a user
AddChild(id, restartType) ==
    /\ AddChildBody(id, restartType)
    /\ UNCHANGED sysVars

\* childOrder without its first occurrence of id
RECURSIVE RemoveFirst(_, _)
RemoveFirst(seq, id) ==
    IF seq = <<>> THEN <<>>
    ELSE IF Head(seq) = id THEN Tail(seq)
    ELSE <<Head(seq)>> \o RemoveFirst(Tail(seq), id)

\* the body of RemoveChild(id), under s.mu: what it does to the maps, the
\* order and the child's actor. It returns an error and changes nothing
\* unless the status is Running and the child exists
RemoveChildBody(id) ==
    IF status = "Running" /\ children[id] # 0
    THEN /\ runningActors' = runningActors \ {<<id, children[id]>>}
         /\ children' = [children EXCEPT ![id] = 0]
         /\ childRefs' = [childRefs EXCEPT ![id] = 0]
         /\ childSpecs' = [childSpecs EXCEPT ![id] = None]
         /\ childOrder' = RemoveFirst(childOrder, id)
    ELSE UNCHANGED <<runningActors, children, childRefs, childSpecs, childOrder>>

\* RemoveChild(id) called by a user
RemoveChild(id) ==
    /\ status = "Running"
    /\ children[id] # 0
    /\ RemoveChildBody(id)
    /\ UNCHANGED <<strategy, cb, status, restartHistory, lastFailure,
                   supMailbox, supStopped, supMu, supWorkerPc, supWorkerErr,
                   supLastError, created, supStopPc, stopChildIDs,
                   stopSnapshot, retries, now, reports, adds, handled,
                   actorVars, notifyReturned, cbCalls, sysVars>>

\* GetChild(id): the ActorRef's actor, or an error
GetChild(id) ==
    IF status # "Running" THEN "SupervisorStopped"
    ELSE IF childRefs[id] = 0 THEN "ActorNotFound"
    ELSE <<id, childRefs[id]>>

\* Receive on the supervisor's own actor, as NotifyChildFailure uses it: the
\* mailbox of 100 is never full within MaxReports. ActorStopped once the
\* actor is stopped, else the message is enqueued and nil returned
SupReceiveResult == IF supStopped THEN "ActorStopped" ELSE NoErr

SupReceive(msg) ==
    /\ supMu = None
    /\ supMailbox' = IF supStopped THEN supMailbox ELSE Append(supMailbox, msg)

\* NotifyChildFailure(ctx, childID, err) called by a user:
\* return s.Receive(ctx, &childFailureMessage{...})
NotifyChildFailure(childID, err) ==
    /\ reports' = reports + 1
    /\ SupReceive([childID |-> childID, err |-> err])
    /\ notifyReturned' = notifyReturned \cup {SupReceiveResult}
    /\ UNCHANGED <<strategy, cb, status, children, childRefs, childSpecs,
                   childOrder, restartHistory, lastFailure, supStopped, supMu,
                   supWorkerPc, supWorkerErr, supLastError, created,
                   runningActors, supStopPc, stopChildIDs, stopSnapshot,
                   retries, now, adds, handled,
                   actorVars, cbCalls, sysVars>>

\* shouldRestart(childID, err)
shouldRestart(childID, err) ==
    IF childSpecs[childID] = None THEN FALSE
    ELSE CASE childSpecs[childID] = "Permanent" -> TRUE
           [] childSpecs[childID] = "Temporary" -> FALSE
           [] childSpecs[childID] = "Transient" -> err # NoErr
           [] OTHER -> TRUE

\* HandleFailure that names every child under OneForOne
StrategyHandleFailure_All(childID) ==
    IF strategy.strategyType = "OneForOne" THEN childOrder ELSE <<>>

\* DefaultStrategy.HandleFailure: the ids it returns
StrategyHandleFailure(childID) ==
    IF strategy.strategyType = "OneForOne" THEN <<childID>> ELSE <<>>

\* SuffixFrom that leaves the failed child itself out
RECURSIVE SuffixFrom_After(_, _)
SuffixFrom_After(seq, id) ==
    IF seq = <<>> THEN <<>>
    ELSE IF Head(seq) = id THEN Tail(seq)
    ELSE SuffixFrom_After(Tail(seq), id)

\* the suffix of seq from the first occurrence of id; empty when id is not in seq
RECURSIVE SuffixFrom(_, _)
SuffixFrom(seq, id) ==
    IF seq = <<>> THEN <<>>
    ELSE IF Head(seq) = id THEN seq
    ELSE SuffixFrom(Tail(seq), id)

\* childrenToRestart of handleChildFailure (lines 276-302)
ChildrenToRestart(childID) ==
    LET fromStrategy == StrategyHandleFailure(childID)
    IN  IF Len(fromStrategy) # 0 THEN fromStrategy
        ELSE CASE strategy.strategyType = "OneForOne" -> <<childID>>
               [] strategy.strategyType = "OneForAll" -> childOrder
               [] strategy.strategyType = "RestForOne" -> SuffixFrom(childOrder, childID)

\* one pass of the restart loop (lines 304-321) for id, on the maps and the
\* actors st: skip an id without a ChildSpec; stop the child's actor if the
\* id has one; CreateFunc; unless it fails, store the new actor and its ref
RestartOne(st, id, fails) ==
    IF childSpecs[id] = None THEN st
    ELSE LET running == IF st.children[id] # 0
                        THEN st.running \ {<<id, st.children[id]>>}
                        ELSE st.running
             fresh == st.created[id] + 1
         IN  IF fails THEN [st EXCEPT !.running = running]
             ELSE [children |-> [st.children EXCEPT ![id] = fresh],
                   childRefs |-> [st.childRefs EXCEPT ![id] = fresh],
                   created |-> [st.created EXCEPT ![id] = fresh],
                   running |-> running \cup {<<id, fresh>>}]

\* for _, id := range childrenToRestart, from position i on
RECURSIVE RestartLoop(_, _, _, _)
RestartLoop(ids, i, failing, st) ==
    IF i > Len(ids) THEN st
    ELSE RestartLoop(ids, i + 1, failing, RestartOne(st, ids[i], i \in failing))

\* NewHistory without the filter: no timestamp is ever dropped
NewHistory_NoGc(t) == Append(restartHistory, t)

\* restartHistory after line 217 and the filter of lines 224-234
NewHistory(t) ==
    LET cutoff == t - strategy.timeInterval
        after(x) == x > cutoff
    IN  SelectSeq(Append(restartHistory, t), after)

\* TooManyRestarts with >= for >
TooManyRestarts_AtLimit(validRestarts) == validRestarts >= strategy.maxRestarts

\* validRestarts > s.strategy.MaxRestarts()
TooManyRestarts(validRestarts) == validRestarts > strategy.maxRestarts

\* the observation log keeps the first MaxHandled calls of handleChildFailure
MaxHandled == 4

Logged(entry) == IF Len(handled) < MaxHandled THEN Append(handled, entry) ELSE handled

\* handleChildFailure(ctx, childID, err), under s.mu from start to end.
\* result is the error it returns, or which of its nil returns it took
handleChildFailure(childID, err, result) ==
    IF status \in {"Stopping", "Stopped"}
    THEN /\ result = "ignored"
         /\ handled' = Logged([childID |-> childID, at |-> now,
                               spec |-> childSpecs[childID],
                               gate |-> None, createFailed |-> {},
                               result |-> "ignored"])
         /\ UNCHANGED <<cb, status, children, childRefs, restartHistory,
                        lastFailure, created, runningActors, supStopPc, retries>>
    ELSE
      LET limited == strategy.maxRestarts > 0
          hist == IF limited THEN NewHistory(now) ELSE Append(restartHistory, now)
          validRestarts == Len(hist)
          exceeded == limited /\ TooManyRestarts(validRestarts)
          cb1 == CBGetState(cb, now)
          log(res, gate, createFailed) == handled' = Logged(
                [childID |-> childID, at |-> now, spec |-> childSpecs[childID],
                 gate |-> gate, createFailed |-> createFailed, result |-> res])
      IN
      /\ lastFailure' = err
      /\ restartHistory' = hist
      /\ IF exceeded /\ strategy.terminateOnMaxRestarts
         THEN \* status = Stopping; go s.Stop(); return ErrTooManyRestarts
              /\ result = "TooManyRestarts"
              /\ status' = "Stopping"
              /\ supStopPc' = [supStopPc EXCEPT !["async"] = "begin"]
              /\ log("TooManyRestarts", None, {})
              /\ UNCHANGED <<cb, children, childRefs, created, runningActors, retries>>
         ELSE \E backoffDuration \in
                   (IF exceeded THEN CalculateBackoff(validRestarts) ELSE {0}) :
              IF backoffDuration > 0
              THEN \* status = Restarting; go sleep, set Running, notify again
                   /\ result = "backoff"
                   /\ status' = "Restarting"
                   /\ retries' = Append(retries, [childID |-> childID, err |-> err,
                                                  wake |-> now + backoffDuration,
                                                  pc |-> "sleep"])
                   /\ log("backoff", None, {})
                   /\ UNCHANGED <<cb, children, childRefs, created, runningActors,
                                  supStopPc>>
              ELSE IF ~CBShouldAllow(cb1)
              THEN /\ result = "CircuitBreakerOpen"
                   /\ cb' = cb1
                   /\ log("CircuitBreakerOpen", cb1.state, {})
                   /\ UNCHANGED <<status, children, childRefs, created,
                                  runningActors, supStopPc, retries>>
              ELSE IF ~shouldRestart(childID, err)
              THEN \* delete(s.children, childID); delete(s.childRefs, childID)
                   /\ result = "dropped"
                   /\ cb' = cb1
                   /\ children' = [children EXCEPT ![childID] = 0]
                   /\ childRefs' = [childRefs EXCEPT ![childID] = 0]
                   /\ log("dropped", cb1.state, {})
                   /\ UNCHANGED <<status, created, runningActors, supStopPc, retries>>
              ELSE \* the restart loop; CreateFunc fails at the positions in failing
                   \E failing \in SUBSET (1 .. Len(ChildrenToRestart(childID))) :
                   LET st == RestartLoop(ChildrenToRestart(childID), 1, failing,
                                         [children |-> children,
                                          childRefs |-> childRefs,
                                          created |-> created,
                                          running |-> runningActors])
                   IN
                   /\ result = "restarted"
                   /\ cb' = CBRecordSuccess(CBRecordFailure(cb1, now), now)
                   /\ status' = "Running"
                   /\ runningActors' = st.running
                   /\ created' = st.created
                   /\ children' = st.children
                   /\ childRefs' = st.childRefs
                   /\ log("restarted", cb1.state,
                          {ChildrenToRestart(childID)[i] : i \in failing})
                   /\ UNCHANGED <<supStopPc, retries>>

\* the errors handleChildFailure returns
IsError(result) == result \in {"TooManyRestarts", "CircuitBreakerOpen"}

\* processMessages of the supervisor's actor: take a childFailureMessage and
\* run processMessage on it, or leave when the context is cancelled
SupWorkerSelect ==
    /\ supWorkerPc = "select"
    /\ \/ /\ Len(supMailbox) > 0
          /\ supMailbox' = Tail(supMailbox)
          /\ \E result \in {"ignored", "TooManyRestarts", "backoff",
                            "CircuitBreakerOpen", "dropped", "restarted"} :
                /\ handleChildFailure(Head(supMailbox).childID,
                                      Head(supMailbox).err, result)
                /\ supWorkerPc' = IF IsError(result) THEN "setLastError" ELSE "select"
                /\ supWorkerErr' = IF IsError(result) THEN result ELSE supWorkerErr
       \/ /\ supStopped
          /\ supWorkerPc' = "done"
          /\ UNCHANGED <<cb, status, children, childRefs, restartHistory,
                         lastFailure, supMailbox, supWorkerErr, created,
                         runningActors, supStopPc, retries, handled>>
    /\ UNCHANGED <<strategy, childSpecs, childOrder, supStopped, supMu,
                   supLastError, stopChildIDs, stopSnapshot, now, reports, adds,
                   actorVars, notifyReturned, cbCalls, sysVars>>

\* setLastError of the supervisor's actor
SupWorkerSetLastError ==
    /\ supWorkerPc = "setLastError"
    /\ supMu = None
    /\ supLastError' = supWorkerErr
    /\ supWorkerErr' = NoErr
    /\ supWorkerPc' = "select"
    /\ UNCHANGED <<strategy, cb, status, children, childRefs, childSpecs,
                   childOrder, restartHistory, lastFailure, supMailbox,
                   supStopped, supMu, created, runningActors,
                   supStopPc, stopChildIDs, stopSnapshot, retries, now,
                   reports, adds, handled,
                   actorVars, notifyReturned, cbCalls, sysVars>>

(***************************************************************************)
(* DefaultSupervisor.Stop, one goroutine per caller.                       *)
(***************************************************************************)
\* lines 329-338: return if Stopped, else status = Stopping and copy childOrder.
\* A user may call Stop at any time; the async Stop runs once it is spawned
SupStopBegin(p) ==
    /\ \/ supStopPc[p] = "begin"
       \/ p = "user" /\ supStopPc[p] = "none"
    /\ stopSnapshot' = [stopSnapshot EXCEPT ![p] =
          {<<id, children[id]>> : id \in {c \in Range(childOrder) : children[c] # 0}}]
    /\ IF status = "Stopped"
       THEN /\ supStopPc' = [supStopPc EXCEPT ![p] = "returned"]
            /\ UNCHANGED <<status, stopChildIDs>>
       ELSE /\ status' = "Stopping"
            /\ stopChildIDs' = [stopChildIDs EXCEPT ![p] = childOrder]
            /\ supStopPc' = [supStopPc EXCEPT ![p] = "remove"]
    /\ UNCHANGED <<strategy, cb, children, childRefs, childSpecs, childOrder,
                   restartHistory, lastFailure, supMailbox, supStopped, supMu,
                   supWorkerPc, supWorkerErr, supLastError, created,
                   runningActors, retries, now, reports, adds, handled,
                   actorVars, notifyReturned, cbCalls, sysVars>>

\* lines 340-342: for _, id := range childIDs { _ = s.RemoveChild(id) }
SupStopRemove(p) ==
    /\ supStopPc[p] = "remove"
    /\ IF stopChildIDs[p] = <<>>
       THEN /\ supStopPc' = [supStopPc EXCEPT ![p] = "finish"]
            /\ UNCHANGED <<stopChildIDs, runningActors, children, childRefs,
                           childSpecs, childOrder>>
       ELSE /\ RemoveChildBody(Head(stopChildIDs[p]))
            /\ stopChildIDs' = [stopChildIDs EXCEPT ![p] = Tail(@)]
            /\ UNCHANGED supStopPc
    /\ UNCHANGED <<strategy, cb, status, restartHistory, lastFailure,
                   supMailbox, supStopped, supMu, supWorkerPc, supWorkerErr,
                   supLastError, created, stopSnapshot, retries, now, reports,
                   adds, handled,
                   actorVars, notifyReturned, cbCalls, sysVars>>

\* lines 344-346: status = Stopped
SupStopFinish(p) ==
    /\ supStopPc[p] = "finish"
    /\ status' = "Stopped"
    /\ supStopPc' = [supStopPc EXCEPT ![p] = "actorStop"]
    /\ UNCHANGED <<strategy, cb, children, childRefs, childSpecs, childOrder,
                   restartHistory, lastFailure, supMailbox, supStopped, supMu,
                   supWorkerPc, supWorkerErr, supLastError, created,
                   runningActors, stopChildIDs, stopSnapshot, retries, now,
                   reports, adds, handled,
                   actorVars, notifyReturned, cbCalls, sysVars>>

\* line 348, s.DefaultActor.Stop(): lock a.mu; return if stopped; else
\* stopped = true, cancel and wait for the worker with a.mu held
SupStopActor(p) ==
    /\ supStopPc[p] = "actorStop"
    /\ supMu = None
    /\ IF supStopped
       THEN /\ supStopPc' = [supStopPc EXCEPT ![p] = "returned"]
            /\ UNCHANGED <<supStopped, supMu>>
       ELSE /\ supStopped' = TRUE
            /\ supMu' = p
            /\ supStopPc' = [supStopPc EXCEPT ![p] = "wait"]
    /\ UNCHANGED <<strategy, cb, status, children, childRefs, childSpecs,
                   childOrder, restartHistory, lastFailure, supMailbox,
                   supWorkerPc, supWorkerErr, supLastError, created,
                   runningActors, stopChildIDs, stopSnapshot, retries, now,
                   reports, adds, handled,
                   actorVars, notifyReturned, cbCalls, sysVars>>

\* a.wg.Wait() returns; close(a.mailbox); unlock; Stop returns
SupStopWait(p) ==
    /\ supStopPc[p] = "wait"
    /\ supWorkerPc = "done"
    /\ supMu' = None
    /\ supStopPc' = [supStopPc EXCEPT ![p] = "returned"]
    /\ UNCHANGED <<strategy, cb, status, children, childRefs, childSpecs,
                   childOrder, restartHistory, lastFailure, supMailbox,
                   supStopped, supWorkerPc, supWorkerErr, supLastError,
                   created, runningActors, stopChildIDs, stopSnapshot,
                   retries, now, reports, adds, handled,
                   actorVars, notifyReturned, cbCalls, sysVars>>

(***************************************************************************)
(* The delayed retry of handleChildFailure (lines 249-256) and the clock.  *)
(***************************************************************************)
\* time.Sleep(backoffDuration) is over: s.status = Running under s.mu
RetryWake(i) ==
    /\ retries[i].pc = "sleep"
    /\ now >= retries[i].wake
    /\ status' = "Running"
    /\ retries' = [retries EXCEPT ![i].pc = "notify"]
    /\ UNCHANGED <<strategy, cb, children, childRefs, childSpecs, childOrder,
                   restartHistory, lastFailure, supMailbox, supStopped, supMu,
                   supWorkerPc, supWorkerErr, supLastError, created,
                   runningActors, supStopPc, stopChildIDs, stopSnapshot, now,
                   reports, adds, handled,
                   actorVars, notifyReturned, cbCalls, sysVars>>

\* _ = s.NotifyChildFailure(ctx, childID, err)
RetryNotify(i) ==
    /\ retries[i].pc = "notify"
    /\ SupReceive([childID |-> retries[i].childID, err |-> retries[i].err])
    /\ retries' = SubSeq(retries, 1, i - 1) \o SubSeq(retries, i + 1, Len(retries))
    /\ UNCHANGED <<strategy, cb, status, children, childRefs, childSpecs,
                   childOrder, restartHistory, lastFailure, supStopped, supMu,
                   supWorkerPc, supWorkerErr, supLastError, created,
                   runningActors, supStopPc, stopChildIDs, stopSnapshot, now,
                   reports, adds, handled,
                   actorVars, notifyReturned, cbCalls, sysVars>>

\* a second passes
Tick ==
    /\ now' = now + 1
    /\ UNCHANGED <<strategy, cb, status, children, childRefs, childSpecs,
                   childOrder, restartHistory, lastFailure, supMailbox,
                   supStopped, supMu, supWorkerPc, supWorkerErr, supLastError,
                   created, runningActors, supStopPc, stopChildIDs,
                   stopSnapshot, retries, reports, adds, handled,
                   actorVars, notifyReturned, cbCalls, sysVars>>

\* a second passes, seen from the present: now stays and every instant the
\* supervisor holds moves one second into the past. The code compares
\* instants only by their distance from time.Now(): an entry of
\* restartHistory that has left the window stays outside it, a retry whose
\* sleep is over stays due, and the breaker reads lastFailure only through
\* failureWindow and lastStateChange only through resetTimeout
Elapse ==
    /\ restartHistory' = [i \in 1 .. Len(restartHistory) |->
                              Max(restartHistory[i] - 1, now - strategy.timeInterval)]
    /\ retries' = [i \in 1 .. Len(retries) |->
                      [retries[i] EXCEPT !.wake = Max(@ - 1, now)]]
    /\ cb' = [cb EXCEPT
                !.lastFailure = IF @ = NoTime THEN NoTime
                                ELSE Max(@ - 1, now - strategy.breaker.failureWindow - 1),
                !.lastStateChange =
                    Max(@ - 1, now - strategy.breaker.resetTimeout - 1)]
    /\ UNCHANGED <<strategy, status, children, childRefs, childSpecs,
                   childOrder, lastFailure, supMailbox, supStopped, supMu,
                   supWorkerPc, supWorkerErr, supLastError, created,
                   runningActors, supStopPc, stopChildIDs, stopSnapshot, now,
                   reports, adds, handled,
                   actorVars, notifyReturned, cbCalls, sysVars>>

\* a user of the actor reports a failure to a supervisor: the only way a
\* supervisor learns of one
ReportFailure ==
    /\ ~crashed
    /\ reports < MaxActorReports
    /\ NotifyChildFailure("A", "boom")

(***************************************************************************)
(* MonitorRegistry (unnamed/part_000).                                     *)
(***************************************************************************)
\* the ids of genservers; the ids of everything an ActorSystem registers
GsIds == {"C"}
SysIds == Ids \cup GsIds
Names == {"n1", "n2"}
NoName == ""
MonitorTypes == {"OneWay", "Bidirectional"}
\* the goroutines that call NotifyFailure
Notifiers == {"f1", "f2"}
\* the goroutines that call one circuit breaker, for example the workers of
\* two supervisors made with the same Strategy
Sharers == {"u1", "u2"}
\* the goroutines that call MakeCallSync
Callers == {"c1", "c2"}
\* the types and tags of the Registry
ActorTypes == {"T1", "T2"}
Tags == {"g1", "g2"}
\* no broadcast has been made
NoCast == [kind |-> "none", key |-> None, targets |-> {}, sends |-> <<>>,
           result |-> NoErr]
\* no message: the worker is not inside processMessage
NoMessage == [kind |-> "none", from |-> None, n |-> 0]

NoLinks == [a \in SysIds |-> [b \in SysIds |-> None]]

\* the registry's two maps
Links == [monitors |-> monitors, monitoring |-> monitoring]

\* Monitor(monitorID, monitoredID, linkType), under r.mu
Monitor(g, monitorID, monitoredID, linkType) ==
    LET m1 == [g.monitors EXCEPT ![monitoredID][monitorID] = linkType]
        g1 == [g.monitoring EXCEPT ![monitorID][monitoredID] = linkType]
    IN  IF linkType = "Bidirectional"
        THEN [monitors |-> [m1 EXCEPT ![monitorID][monitoredID] = linkType],
              monitoring |-> [g1 EXCEPT ![monitoredID][monitorID] = linkType]]
        ELSE [monitors |-> m1, monitoring |-> g1]

\* Demonitor without the delete from r.monitoring[monitorID]
Demonitor_KeepsMonitoring(g, monitorID, monitoredID) ==
    LET linkType == g.monitors[monitoredID][monitorID]
        m1 == [g.monitors EXCEPT ![monitoredID][monitorID] = None]
    IN  IF linkType = "Bidirectional"
        THEN [monitors |-> [m1 EXCEPT ![monitorID][monitoredID] = None],
              monitoring |-> [g.monitoring EXCEPT ![monitoredID][monitorID] = None]]
        ELSE [monitors |-> m1, monitoring |-> g.monitoring]

\* Demonitor(monitorID, monitoredID), under r.mu: linkType is the kind found
\* in r.monitors[monitoredID][monitorID] (OneWay, the zero value, when there
\* is none)
Demonitor(g, monitorID, monitoredID) ==
    LET linkType == g.monitors[monitoredID][monitorID]
        m1 == [g.monitors EXCEPT ![monitoredID][monitorID] = None]
        g1 == [g.monitoring EXCEPT ![monitorID][monitoredID] = None]
    IN  IF linkType = "Bidirectional"
        THEN [monitors |-> [m1 EXCEPT ![monitorID][monitoredID] = None],
              monitoring |-> [g1 EXCEPT ![monitoredID][monitorID] = None]]
        ELSE [monitors |-> m1, monitoring |-> g1]

\* GetMonitors(actorID): the keys of r.monitors[actorID]
GetMonitors(g, actorID) == {id \in SysIds : g.monitors[actorID][id] # None}

\* GetMonitored(actorID): the keys of r.monitoring[actorID]
GetMonitored(g, actorID) == {id \in SysIds : g.monitoring[actorID][id] # None}

\* CleanupActor that forgets the links in which actorID is the monitored one
CleanupActor_MonitoringOnly(g, actorID) ==
    LET monitored == GetMonitored(g, actorID)
    IN  [monitors |-> [id \in SysIds |->
                          IF id \in monitored
                          THEN [g.monitors[id] EXCEPT ![actorID] = None]
                          ELSE g.monitors[id]],
         monitoring |-> [g.monitoring EXCEPT ![actorID] = [b \in SysIds |-> None]]]

\* CleanupActor(actorID), under r.mu
CleanupActor(g, actorID) ==
    LET monitored == GetMonitored(g, actorID)
        g1 == [g.monitoring EXCEPT ![actorID] = [b \in SysIds |-> None]]
        m1 == [id \in SysIds |->
                  IF id \in monitored
                  THEN [g.monitors[id] EXCEPT ![actorID] = None]
                  ELSE g.monitors[id]]
        mons == {id \in SysIds : m1[actorID][id] # None}
        m2 == [m1 EXCEPT ![actorID] = [b \in SysIds |-> None]]
        g2 == [id \in SysIds |->
                  IF id \in mons
                  THEN [g1[id] EXCEPT ![actorID] = None]
                  ELSE g1[id]]
    IN  [monitors |-> m2, monitoring |-> g2]

\* r.mu can be write-locked: it is not stuck and no NotifyMonitors call
\* holds its read lock
RegistryLockFree ==
    /\ ~regStuck
    /\ \A p \in Notifiers : notifyPc[p] # "getMonitors"

\* the registry's maps become g
SetLinks(g) ==
    /\ monitors' = g.monitors
    /\ monitoring' = g.monitoring
    /\ UNCHANGED regStuck

\* the three writers, called on the registry itself
RegistryMonitor(monitorID, monitoredID, linkType) ==
    /\ RegistryLockFree
    /\ SetLinks(Monitor(Links, monitorID, monitoredID, linkType))
    /\ UNCHANGED <<actorVars, supVars, nameVars, gsVars, notifyVars,
                   sysRunning, sysMu, registry, otherVars>>

RegistryDemonitor(monitorID, monitoredID) ==
    /\ RegistryLockFree
    /\ SetLinks(Demonitor(Links, monitorID, monitoredID))
    /\ UNCHANGED <<actorVars, supVars, nameVars, gsVars, notifyVars,
                   sysRunning, sysMu, registry, otherVars>>

RegistryCleanupActor(actorID) ==
    /\ RegistryLockFree
    /\ SetLinks(CleanupActor(Links, actorID))
    /\ UNCHANGED <<actorVars, supVars, nameVars, gsVars, notifyVars,
                   sysRunning, sysMu, registry, otherVars>>

(***************************************************************************)
(* NamedRegistry (system/system.go:394-460). An ActorRef is written as the *)
(* actor it wraps, <<id, n>>: the n-th actor made for the id.              *)
(***************************************************************************)
\* no ActorRef
NoRef == <<>>

RefID(ref) == ref[1]

NameMaps == [nameToActor |-> nameToActor, actorToName |-> actorToName]

\* Register without the check that the actor has a name already
Register_IgnoresActorName(r, name, actorRef) ==
    IF r.nameToActor[name] # NoRef THEN r
    ELSE [nameToActor |-> [r.nameToActor EXCEPT ![name] = actorRef],
          actorToName |-> [r.actorToName EXCEPT ![RefID(actorRef)] = name]]

\* Register(name, actorRef), under r.mu: the maps it leaves. A call that
\* returns an error leaves them as they are
Register(r, name, actorRef) ==
    IF r.nameToActor[name] # NoRef THEN r
    ELSE IF r.actorToName[RefID(actorRef)] # None THEN r
    ELSE [nameToActor |-> [r.nameToActor EXCEPT ![name] = actorRef],
          actorToName |-> [r.actorToName EXCEPT ![RefID(actorRef)] = name]]

\* the error Register(name, actorRef) returns
RegisterErr(r, name, actorRef) ==
    IF r.nameToActor[name] # NoRef THEN "name is already registered"
    ELSE IF r.actorToName[RefID(actorRef)] # None THEN "actor is already registered"
    ELSE NoErr

\* Unregister(name), under r.mu
Unregister(r, name) ==
    IF r.nameToActor[name] = NoRef THEN r
    ELSE [nameToActor |-> [r.nameToActor EXCEPT ![name] = NoRef],
          actorToName |-> [r.actorToName EXCEPT ![RefID(r.nameToActor[name])] = None]]

\* UnregisterActor(actorID), under r.mu
UnregisterActor(r, actorID) ==
    IF r.actorToName[actorID] = None THEN r
    ELSE [nameToActor |-> [r.nameToActor EXCEPT ![r.actorToName[actorID]] = NoRef],
          actorToName |-> [r.actorToName EXCEPT ![actorID] = None]]

\* Lookup(name)
Lookup(r, name) == r.nameToActor[name]

SetNames(r) ==
    /\ nameToActor' = r.nameToActor
    /\ actorToName' = r.actorToName

\* the ActorRefs the spawn calls have handed to users
UserRefs == {registry[id] : id \in SysIds} \ {NoRef}

\* RegisterName(name, actorRef), UnregisterName(name) and, on the registry
\* itself, UnregisterActor(actorID): s.running is read without s.mu
RegisterName(name, actorRef) ==
    /\ sysRunning
    /\ SetNames(Register(NameMaps, name, actorRef))
    /\ UNCHANGED <<actorVars, supVars, monVars, gsVars, notifyVars,
                   sysRunning, sysMu, registry, otherVars>>

UnregisterName(name) ==
    /\ sysRunning
    /\ SetNames(Unregister(NameMaps, name))
    /\ UNCHANGED <<actorVars, supVars, monVars, gsVars, notifyVars,
                   sysRunning, sysMu, registry, otherVars>>

NamesUnregisterActor(actorID) ==
    /\ SetNames(UnregisterActor(NameMaps, actorID))
    /\ UNCHANGED <<actorVars, supVars, monVars, gsVars, notifyVars,
                   sysRunning, sysMu, registry, otherVars>>

(***************************************************************************)
(* ActorSystem (system/system.go).                                         *)
(***************************************************************************)
\* NewActorSystem(name): the registries are empty and the system runs; the
\* root supervisor is made by SupInit
\* no SpawnGenServer call is in progress
NoSpawn == [pc |-> "idle", id |-> None, name |-> NoName, ref |-> NoRef]

SysInitCore ==
    /\ monitors = NoLinks
    /\ monitoring = NoLinks
    /\ regStuck = FALSE
    /\ nameToActor = [n \in Names |-> NoRef]
    /\ actorToName = [id \in SysIds |-> None]
    /\ sysRunning = TRUE
    /\ sysMu = None
    /\ registry = [id \in SysIds |-> NoRef]
    /\ gsCreated = [id \in GsIds |-> 0]
    /\ gsInitCalled = {}
    /\ spawnCall = NoSpawn
    /\ notifyPc = [p \in Notifiers |-> "idle"]
    /\ notifyActor = [p \in Notifiers |-> None]
    /\ notifyTargets = [p \in Notifiers |-> {}]
    /\ notifies = 0
    /\ notified = <<>>
    /\ sends = <<>>
    /\ monitorCalls = [a \in SysIds |-> [b \in SysIds |-> 0]]
    /\ owed = {}
    /\ spawned = <<>>
    /\ gsSends = {}
    /\ monMsgs = <<>>
    /\ notifyMsg = [p \in Notifiers |-> 0]
    /\ inbox = [id \in SysIds |-> <<>>]
    /\ processed = <<>>
    /\ shPc = [p \in Sharers |-> "idle"]
    /\ shReg = [p \in Sharers |-> 0]
    /\ shRecorded = 0
    /\ shOther = 0
    /\ srvState = 0
    /\ srvQueue = <<>>
    /\ srvWorkerPc = "select"
    /\ srvCur = NoMessage
    /\ srvStopPc = [k \in Stoppers |-> "idle"]
    /\ srvSnap = [k \in Stoppers |-> 0]
    /\ srvTerminated = <<>>
    /\ srvClosed = FALSE
    /\ srvActorStopped = FALSE
    /\ srvActorMu = None
    /\ srvHandled = <<>>
    /\ srvCasts = 0
    /\ callPc = [c \in Callers |-> "idle"]
    /\ callSeq = [c \in Callers |-> 0]
    /\ srvReplies = {}
    /\ callResults = <<>>
    /\ regActors = {}
    /\ actorsByType = [t \in ActorTypes |-> <<>>]
    /\ actorTypes = [id \in Ids |-> None]
    /\ actorTags = [g \in Tags |-> <<>>]
    /\ actorsByTag = [id \in Ids |-> <<>>]
    /\ regCalls = 0
    /\ lastCast = NoCast

SysInit == SysInitCore /\ calc = NoCalc

\* s.mu can be locked, for reading or for writing: no SpawnGenServer call
\* holds it, and no Monitor or Demonitor call waits for r.mu while it holds
\* s.mu's read lock
SysLockFree == sysMu = None /\ ~regStuck

\* SpawnActor(id, receiver, bufferSize): the root supervisor's AddChild with
\* a Permanent spec, then the registry entry. A call that returns an error
\* changes nothing
SpawnActor(id) ==
    /\ SysLockFree
    /\ sysRunning
    /\ registry[id] = NoRef
    /\ AddChildBody(id, "Permanent")
    /\ registry' = [registry EXCEPT ![id] = <<id, created[id] + 1>>]
    /\ UNCHANGED <<monVars, nameVars, gsVars, notifyVars, sysRunning, sysMu, otherVars>>

\* GetActor(id), under s.mu's read lock: the error it returns; without one
\* it returns registry[id]
GetActorErr(id) ==
    IF ~sysRunning THEN "SystemStopped"
    ELSE IF registry[id] = NoRef THEN "ActorNotFound"
    ELSE NoErr

\* Monitor(monitorID, monitoredID, linkType), under s.mu's read lock: both
\* ids have to be registered
SystemMonitor(monitorID, monitoredID, linkType) ==
    /\ SysLockFree
    /\ RegistryLockFree
    /\ sysRunning
    /\ registry[monitorID] # NoRef
    /\ registry[monitoredID] # NoRef
    /\ SetLinks(Monitor(Links, monitorID, monitoredID, linkType))
    /\ monitorCalls' = [monitorCalls EXCEPT ![monitorID][monitoredID] = @ + 1]
    /\ UNCHANGED <<actorVars, supVars, nameVars, gsVars, msgVars, notifyPc,
                   notifyActor, notifyTargets, notifies, notified, sends,
                   owed, sysRunning, sysMu, registry, otherVars>>

\* Demonitor(monitorID, monitoredID), under s.mu's read lock
SystemDemonitor(monitorID, monitoredID) ==
    /\ SysLockFree
    /\ RegistryLockFree
    /\ sysRunning
    /\ SetLinks(Demonitor(Links, monitorID, monitoredID))
    /\ UNCHANGED <<actorVars, supVars, nameVars, gsVars, notifyVars,
                   sysRunning, sysMu, registry, otherVars>>

\* a Monitor, Demonitor or CleanupActor call reaches r.mu.Lock() while a
\* NotifyMonitors call holds r.mu.RLock() and has not entered GetMonitors:
\* the writer waits for the reader, and the reader's second RLock() waits
\* for the writer
RegistryLockBlocked ==
    /\ ~regStuck
    /\ \E p \in Notifiers : notifyPc[p] = "getMonitors"
    /\ regStuck' = TRUE
    /\ UNCHANGED <<actorVars, supVars, monitors, monitoring, nameVars, gsVars,
                   notifyVars, sysRunning, sysMu, registry, otherVars>>

\* Stop() of the actor registered under id (DefaultActor.Stop): the actor
\* stops; nothing else is told
ActorStop(id) ==
    /\ registry[id] # NoRef
    /\ registry[id] \in runningActors
    /\ runningActors' = runningActors \ {registry[id]}
    /\ owed' = owed \cup {<<m, id>> : m \in GetMonitors(Links, id)}
    /\ UNCHANGED <<strategy, cb, status, children, childRefs, childSpecs,
                   childOrder, restartHistory, lastFailure, supMailbox,
                   supStopped, supMu, supWorkerPc, supWorkerErr, supLastError,
                   created, supStopPc, stopChildIDs, stopSnapshot, retries,
                   now, reports, adds, handled, notifyReturned, cbCalls,
                   actorVars, monVars, nameVars, gsVars, msgVars, notifyPc,
                   notifyActor, notifyTargets, notifies, notified, sends,
                   monitorCalls, sysRunning, sysMu, registry, otherVars>>

\* NotifyFailure(ctx, actorID, reason) begins: s.running is read without
\* s.mu, then NotifyMonitors takes r.mu.RLock()
NotifyFailure(p, actorID) ==
    /\ notifyPc[p] = "idle"
    /\ ~regStuck
    /\ notifies' = notifies + 1
    /\ IF ~sysRunning
       THEN /\ notified' = Append(notified, [actorID |-> actorID,
                                             result |-> "SystemStopped",
                                             monitorCalls |-> monitorCalls])
            /\ UNCHANGED <<notifyPc, notifyActor>>
       ELSE /\ notifyPc' = [notifyPc EXCEPT ![p] = "getMonitors"]
            /\ notifyActor' = [notifyActor EXCEPT ![p] = actorID]
            /\ UNCHANGED notified
    /\ UNCHANGED <<actorVars, supVars, monVars, nameVars, gsVars, msgVars,
                   notifyTargets, sends, monitorCalls, owed, sysRunning,
                   sysMu, registry, otherVars>>

\* NotifyMonitors: monitors := r.GetMonitors(actorID), which takes
\* r.mu.RLock() a second time, then both read locks are released; with no
\* monitors it returns
NotifyGetMonitors(p) ==
    /\ notifyPc[p] = "getMonitors"
    /\ ~regStuck
    /\ notifyTargets' = [notifyTargets EXCEPT ![p] = GetMonitors(Links, notifyActor[p])]
    /\ notifyPc' = [notifyPc EXCEPT ![p] =
           IF GetMonitors(Links, notifyActor[p]) = {} THEN "unregister" ELSE "send"]
    /\ IF GetMonitors(Links, notifyActor[p]) = {}
       THEN UNCHANGED <<monMsgs, notifyMsg>>
       ELSE /\ monMsgs' = Append(monMsgs, [MonitoredID |-> notifyActor[p],
                                           MonitorID |-> None])
            /\ notifyMsg' = [notifyMsg EXCEPT ![p] = Len(monMsgs) + 1]
    /\ UNCHANGED <<inbox, processed>>
    /\ UNCHANGED <<actorVars, supVars, monVars, nameVars, gsVars, notifyActor,
                   notifies, notified, sends, monitorCalls, owed, sysRunning,
                   sysMu, registry, otherVars>>

\* NotifyMonitors: one turn of the loop over the monitors, in the order the
\* map's range gave. GetActor takes s.mu.RLock(); when it returns a ref the
\* message is sent, and Send fails when the monitor's actor is stopped or
\* its mailbox has no room; the result is dropped. Every turn writes
\* msg.MonitorID of the call's one message, and Send puts the pointer to
\* that message in the mailbox
NotifySend(p, monitorID, room) ==
    /\ notifyPc[p] = "send"
    /\ monitorID \in notifyTargets[p]
    /\ sysMu = None
    /\ notifyTargets' = [notifyTargets EXCEPT ![p] = @ \ {monitorID}]
    /\ notifyPc' = [notifyPc EXCEPT ![p] =
           IF notifyTargets[p] = {monitorID} THEN "unregister" ELSE "send"]
    /\ monMsgs' = [monMsgs EXCEPT ![notifyMsg[p]].MonitorID = monitorID]
    /\ IF GetActorErr(monitorID) # NoErr
       THEN UNCHANGED sends
       ELSE sends' = Append(sends,
                [to |-> monitorID,
                 about |-> notifyActor[p],
                 ok |-> room /\ registry[monitorID] \in runningActors,
                 aboutRunning |-> registry[notifyActor[p]] \in runningActors])
    /\ IF GetActorErr(monitorID) = NoErr /\ room
          /\ registry[monitorID] \in runningActors
       THEN inbox' = [inbox EXCEPT ![monitorID] = Append(@, notifyMsg[p])]
       ELSE UNCHANGED inbox
    /\ UNCHANGED <<notifyMsg, processed>>
    /\ UNCHANGED <<actorVars, supVars, monVars, nameVars, gsVars, notifyActor,
                   notifies, notified, monitorCalls, owed, sysRunning, sysMu,
                   registry, otherVars>>

\* NotifyFailure: s.namedRegistry.UnregisterActor(actorID)
NotifyUnregisterActor(p) ==
    /\ notifyPc[p] = "unregister"
    /\ SetNames(UnregisterActor(NameMaps, notifyActor[p]))
    /\ notifyPc' = [notifyPc EXCEPT ![p] = "cleanup"]
    /\ UNCHANGED <<actorVars, supVars, monVars, gsVars, msgVars, notifyActor,
                   notifyTargets, notifies, notified, sends, monitorCalls,
                   owed, sysRunning, sysMu, registry, otherVars>>

\* NotifyFailure: s.monitorRegistry.CleanupActor(actorID); return nil
NotifyCleanupActor(p) ==
    /\ notifyPc[p] = "cleanup"
    /\ RegistryLockFree
    /\ SetLinks(CleanupActor(Links, notifyActor[p]))
    /\ notified' = Append(notified, [actorID |-> notifyActor[p], result |-> NoErr,
                                     monitorCalls |-> monitorCalls])
    /\ notifyPc' = [notifyPc EXCEPT ![p] = "idle"]
    /\ notifyActor' = [notifyActor EXCEPT ![p] = None]
    /\ UNCHANGED <<actorVars, supVars, nameVars, gsVars, msgVars, notifyTargets,
                   notifies, sends, monitorCalls, owed, sysRunning, sysMu,
                   registry, otherVars>>

\* the worker of the actor registered under id takes the next message from
\* its mailbox and hands it to the receiver, which reads the fields the
\* message has at that moment
MonitorReceive(id) ==
    /\ registry[id] # NoRef
    /\ registry[id] \in runningActors
    /\ inbox[id] # <<>>
    /\ processed' = Append(processed,
           [by |-> id,
            MonitorID |-> monMsgs[Head(inbox[id])].MonitorID,
            MonitoredID |-> monMsgs[Head(inbox[id])].MonitoredID])
    /\ inbox' = [inbox EXCEPT ![id] = Tail(@)]
    /\ UNCHANGED <<actorVars, supVars, monVars, nameVars, gsVars, notifyPc,
                   notifyActor, notifyTargets, notifies, notified, sends,
                   monitorCalls, owed, monMsgs, notifyMsg, sysRunning, sysMu,
                   registry, otherVars>>

(***************************************************************************)
(* SpawnGenServer (system/system.go:234-264) and genserver.Start           *)
(* (unnamed/part_002:58-87). Every server has an InitFunc.                 *)
(***************************************************************************)
SupFrame ==
    UNCHANGED <<strategy, cb, status, children, childRefs, childSpecs,
                childOrder, restartHistory, lastFailure, supMailbox,
                supStopped, supMu, supWorkerPc, supWorkerErr, supLastError,
                created, supStopPc, stopChildIDs, stopSnapshot, retries, now,
                reports, adds, handled, notifyReturned, cbCalls>>

\* SpawnGenServer(id, options) takes s.mu, passes its two checks and calls
\* genserver.Start, which calls New: the server's actor is made and its
\* worker runs. A call that fails a check changes nothing
SpawnGenServerNew(id, name) ==
    /\ SysLockFree
    /\ spawnCall = NoSpawn
    /\ sysRunning
    /\ registry[id] = NoRef
    /\ sysMu' = "SpawnGenServer"
    /\ gsCreated' = [gsCreated EXCEPT ![id] = @ + 1]
    /\ runningActors' = runningActors \cup {<<id, gsCreated[id] + 1>>}
    /\ spawnCall' = [pc |-> "init", id |-> id, name |-> name,
                     ref |-> <<id, gsCreated[id] + 1>>]
    /\ SupFrame
    /\ UNCHANGED <<actorVars, monVars, nameVars, gsInitCalled, spawned,
                   gsSends, notifyVars, sysRunning, registry, otherVars>>

\* genserver.Start: options.InitFunc returns. With an error Start returns it
\* and so does SpawnGenServer; the actor New made is left running. Otherwise
\* initCalled is set, Start returns the ref and s.registry[id] = ref; with
\* no name SpawnGenServer returns the ref
SpawnGenServerInit(err) ==
    /\ spawnCall.pc = "init"
    /\ IF err # NoErr
       THEN /\ spawned' = Append(spawned, [id |-> spawnCall.id,
                                           name |-> spawnCall.name,
                                           ref |-> spawnCall.ref,
                                           result |-> "failed to initialize GenServer"])
            /\ spawnCall' = NoSpawn
            /\ sysMu' = None
            /\ UNCHANGED <<gsInitCalled, registry>>
       ELSE /\ gsInitCalled' = gsInitCalled \cup {spawnCall.ref}
            /\ registry' = [registry EXCEPT ![spawnCall.id] = spawnCall.ref]
            /\ IF spawnCall.name = NoName
               THEN /\ spawned' = Append(spawned, [id |-> spawnCall.id,
                                                   name |-> spawnCall.name,
                                                   ref |-> spawnCall.ref,
                                                   result |-> NoErr])
                    /\ spawnCall' = NoSpawn
                    /\ sysMu' = None
               ELSE /\ spawnCall' = [spawnCall EXCEPT !.pc = "register"]
                    /\ UNCHANGED <<spawned, sysMu>>
    /\ UNCHANGED <<actorVars, supVars, monVars, nameVars, gsCreated, gsSends,
                   notifyVars, sysRunning, otherVars>>

\* the end of SpawnGenServer without the delete from s.registry
SpawnGenServerRegister_KeepsEntry ==
    /\ spawnCall.pc = "register"
    /\ SetNames(Register(NameMaps, spawnCall.name, spawnCall.ref))
    /\ spawned' = Append(spawned, [id |-> spawnCall.id, name |-> spawnCall.name,
                                   ref |-> spawnCall.ref,
                                   result |-> RegisterErr(NameMaps, spawnCall.name,
                                                          spawnCall.ref)])
    /\ IF RegisterErr(NameMaps, spawnCall.name, spawnCall.ref) # NoErr
       THEN runningActors' = runningActors \ {spawnCall.ref}
       ELSE UNCHANGED runningActors
    /\ spawnCall' = NoSpawn
    /\ sysMu' = None
    /\ SupFrame
    /\ UNCHANGED <<actorVars, monVars, gsCreated, gsInitCalled, gsSends,
                   notifyVars, sysRunning, registry, otherVars>>

\* SpawnGenServer: s.namedRegistry.Register(options.Name, ref); on an error
\* gs.Stop() and delete(s.registry, id); s.mu is released
SpawnGenServerRegister ==
    /\ spawnCall.pc = "register"
    /\ SetNames(Register(NameMaps, spawnCall.name, spawnCall.ref))
    /\ spawned' = Append(spawned, [id |-> spawnCall.id, name |-> spawnCall.name,
                                   ref |-> spawnCall.ref,
                                   result |-> RegisterErr(NameMaps, spawnCall.name,
                                                          spawnCall.ref)])
    /\ IF RegisterErr(NameMaps, spawnCall.name, spawnCall.ref) # NoErr
       THEN /\ runningActors' = runningActors \ {spawnCall.ref}
            /\ registry' = [registry EXCEPT ![spawnCall.id] = NoRef]
       ELSE UNCHANGED <<runningActors, registry>>
    /\ spawnCall' = NoSpawn
    /\ sysMu' = None
    /\ SupFrame
    /\ UNCHANGED <<actorVars, monVars, gsCreated, gsInitCalled, gsSends,
                   notifyVars, sysRunning, otherVars>>

\* SendMessage(ctx, actorID, message) to a server: GetActor, then Send
SendMessage(actorID) ==
    /\ SysLockFree
    /\ GetActorErr(actorID) = NoErr
    /\ gsSends' = gsSends \cup {[ref |-> registry[actorID],
                                 initCalled |-> registry[actorID] \in gsInitCalled]}
    /\ UNCHANGED <<actorVars, supVars, monVars, nameVars, gsCreated,
                   gsInitCalled, spawnCall, spawned, notifyVars, sysRunning,
                   sysMu, registry, otherVars>>

\* SendNamedMessage(ctx, name, message) to a server: Lookup, then Send
SendNamedMessage(name) ==
    /\ Lookup(NameMaps, name) # NoRef
    /\ gsSends' = gsSends \cup {[ref |-> Lookup(NameMaps, name),
                                 initCalled |-> Lookup(NameMaps, name) \in gsInitCalled]}
    /\ UNCHANGED <<actorVars, supVars, monVars, nameVars, gsCreated,
                   gsInitCalled, spawnCall, spawned, notifyVars, sysRunning,
                   sysMu, registry, otherVars>>

vars == <<actorVars, supVars, sysVars>>

(***************************************************************************)
(* The specifications.                                                     *)
(***************************************************************************)
InitActor == ActorInit /\ SysInit /\ SupInit(DefaultStrategy)

NextActor ==
    \/ WorkerSelect
    \/ WorkerReceiverReturn
    \/ WorkerSetLastError
    \/ \E s \in Senders : SendStart(s)
    \/ \E s \in Senders : SendSelect1(s)
    \/ \E s \in Senders : SendSelect2(s)
    \/ \E s \in Senders : TimerFire(s)
    \/ \E s \in Senders : DeadlineExpire(s)
    \/ \E k \in Stoppers : StopBegin(k)
    \/ \E k \in Stoppers : StopCancel(k)
    \/ \E k \in Stoppers : StopFinish(k)
    \/ ReportFailure

SpecActor == InitActor /\ [][NextActor]_vars

\* SpecSup: the structure of a supervisor. One strategy of each kind, with
\* the default breaker; users add and remove children of every restart type,
\* report failures and call Stop. The clock stands still
SupStrategies ==
    {StrategyOf("OneForOne", 1, 1, TRUE, "NoBackoff", DisabledBreaker),
     StrategyOf("OneForAll", 0, 1, TRUE, "NoBackoff", DisabledBreaker),
     StrategyOf("RestForOne", 0, 1, TRUE, "NoBackoff", DisabledBreaker)}

InitSup == ActorInit /\ SysInit /\ \E st \in SupStrategies : SupInit(st)

SupAddChild == \E id \in Ids, rt \in RestartTypes : adds < MaxAdds /\ AddChild(id, rt)
SupReport ==
    \E id \in Ids, err \in Errs :
        /\ reports < MaxReports
        /\ Len(supMailbox) < MaxPending
        /\ NotifyChildFailure(id, err)

NextSup ==
    \/ SupAddChild
    \/ \E id \in Ids : RemoveChild(id)
    \/ SupReport
    \/ SupWorkerSelect
    \/ SupWorkerSetLastError
    \/ \E p \in StopCallers : SupStopBegin(p)
    \/ \E p \in StopCallers : SupStopRemove(p)
    \/ \E p \in StopCallers : SupStopFinish(p)
    \/ \E p \in StopCallers : SupStopActor(p)
    \/ \E p \in StopCallers : SupStopWait(p)

SpecSup == InitSup /\ [][NextSup]_vars

\* SpecRestart: restart intensity. Strategies that terminate on max restarts;
\* users add Permanent children and report failures, time passes, and the
\* supervisor stops itself
RestartStrategies == {st \in Strategies : st.maxRestarts > 0 /\ st.terminateOnMaxRestarts}

InitRestart == ActorInit /\ SysInit /\ \E st \in RestartStrategies : SupInit(st)

RestartAddChild == \E id \in Ids : adds < MaxRestartAdds /\ AddChild(id, "Permanent")
RestartReport ==
    \E id \in Ids :
        /\ reports < MaxRestartReports
        /\ Len(supMailbox) < MaxPending
        /\ NotifyChildFailure(id, "boom")
RestartTick == now < MaxRestartTime /\ Tick

NextRestart ==
    \/ RestartAddChild
    \/ RestartReport
    \/ SupWorkerSelect
    \/ SupWorkerSetLastError
    \/ SupStopBegin("async")
    \/ SupStopRemove("async")
    \/ SupStopFinish("async")
    \/ SupStopActor("async")
    \/ SupStopWait("async")
    \/ RestartTick

SpecRestart == InitRestart /\ [][NextRestart]_vars

\* SpecOrder: which children a handled failure replaces. One strategy of
\* each kind, without a restart limit and with the default breaker; users
\* add and remove children of every restart type and report failures, with
\* and without an error. Nobody calls Stop and the clock stands still
OrderStrategies ==
    {StrategyOf(kind, 0, 1, TRUE, "NoBackoff", DisabledBreaker) :
        kind \in {"OneForOne", "OneForAll", "RestForOne"}}

InitOrder == ActorInit /\ SysInit /\ \E st \in OrderStrategies : SupInit(st)

OrderAddChild ==
    \E id \in Ids, rt \in RestartTypes : adds < MaxOrderAdds /\ AddChild(id, rt)
OrderReport ==
    \E id \in Ids, err \in Errs :
        /\ reports < MaxOrderReports
        /\ Len(supMailbox) < MaxPending
        /\ NotifyChildFailure(id, err)

NextOrder ==
    \/ OrderAddChild
    \/ \E id \in Ids : RemoveChild(id)
    \/ OrderReport
    \/ SupWorkerSelect

SpecOrder == InitOrder /\ [][NextOrder]_vars

\* SpecGate: the circuit breaker in front of the restarts. Strategies with
\* an enabled breaker, without and with a restart limit; users add Permanent
\* children and report failures while time passes
GateBreaker ==
    [tripThreshold |-> 2, failureWindow |-> 2, resetTimeout |-> 1,
     successThreshold |-> 1]

GateStrategies ==
    {StrategyOf("OneForOne", 0, 1, TRUE, "NoBackoff", GateBreaker),
     StrategyOf("OneForOne", 2, 1, TRUE, "NoBackoff", GateBreaker)}

InitGate == ActorInit /\ SysInit /\ \E st \in GateStrategies : SupInit(st)

GateAddChild == \E id \in Ids : adds < MaxGateAdds /\ AddChild(id, "Permanent")
GateReport ==
    \E id \in Ids :
        /\ reports < MaxGateReports
        /\ Len(supMailbox) < MaxPending
        /\ NotifyChildFailure(id, "boom")
GateTick == now < MaxGateTime /\ Tick

NextGate ==
    \/ GateAddChild
    \/ GateReport
    \/ SupWorkerSelect
    \/ SupWorkerSetLastError
    \/ SupStopBegin("async")
    \/ SupStopRemove("async")
    \/ SupStopFinish("async")
    \/ SupStopActor("async")
    \/ SupStopWait("async")
    \/ GateTick

SpecGate == InitGate /\ [][NextGate]_vars

\* SpecBreaker: a circuit breaker on its own, as circuit_breaker_test.go
\* drives it: a user calls its methods in any order while time passes
QuickBreaker ==
    [tripThreshold |-> 2, failureWindow |-> 1, resetTimeout |-> 1,
     successThreshold |-> 2]

InitBreaker ==
    ActorInit /\ SysInit /\ SupInit(StrategyOf("OneForOne", 0, 1, TRUE, "NoBackoff", QuickBreaker))

\* a call of a breaker method at time now that leaves the breaker as b and
\* returns result
BreakerCall(op, b, result) ==
    /\ cb' = b
    /\ cbCalls' = Append(cbCalls, [op |-> op, at |-> now, result |-> result,
                                   state |-> b.state])
    /\ UNCHANGED <<strategy, status, children, childRefs, childSpecs,
                   childOrder, restartHistory, lastFailure, supMailbox,
                   supStopped, supMu, supWorkerPc, supWorkerErr, supLastError,
                   created, runningActors, supStopPc, stopChildIDs,
                   stopSnapshot, retries, now, reports, adds, handled,
                   actorVars, notifyReturned, sysVars>>

BreakerGetState ==
    /\ Len(cbCalls) < MaxBreakerCalls
    /\ LET b == CBGetState(cb, now) IN BreakerCall("GetState", b, b.state)

BreakerShouldAllow ==
    /\ Len(cbCalls) < MaxBreakerCalls
    /\ LET b == CBGetState(cb, now)
       IN  BreakerCall("ShouldAllow", b, IF CBShouldAllow(b) THEN "true" ELSE "false")

\* RecordFailure returns true only when it moves Closed to Open
BreakerRecordFailure ==
    /\ Len(cbCalls) < MaxBreakerCalls
    /\ LET b == CBRecordFailure(cb, now)
       IN  BreakerCall("RecordFailure", b,
                       IF cb.state = "Closed" /\ b.state = "Open" THEN "true" ELSE "false")

BreakerRecordSuccess ==
    /\ Len(cbCalls) < MaxBreakerCalls
    /\ BreakerCall("RecordSuccess", CBRecordSuccess(cb, now), "none")

BreakerReset ==
    /\ Len(cbCalls) < MaxBreakerCalls
    /\ BreakerCall("Reset", CBReset(cb, now), "none")

BreakerTick == now < MaxBreakerTime /\ Tick

NextBreaker ==
    \/ BreakerGetState
    \/ BreakerShouldAllow
    \/ BreakerRecordFailure
    \/ BreakerRecordSuccess
    \/ BreakerReset
    \/ BreakerTick

SpecBreaker == InitBreaker /\ [][NextBreaker]_vars

\* NewActorSystem: the root supervisor's strategy, NewStrategy(OneForOne, 10, 60)
RootMaxRestarts == 10
RootTimeInterval == 60
RootStrategy ==
    StrategyOf("OneForOne", RootMaxRestarts, RootTimeInterval, TRUE,
               "NoBackoff", DisabledBreaker)

InitSystem == ActorInit /\ SysInit /\ SupInit(RootStrategy)

\* SpecMonitor: the monitor registry by itself. Users call Monitor, Demonitor
\* and CleanupActor on it with every id and both link kinds

NextMonitor ==
    \/ \E m \in SysIds, t \in SysIds, k \in MonitorTypes : RegistryMonitor(m, t, k)
    \/ \E m \in SysIds, t \in SysIds : RegistryDemonitor(m, t)
    \/ \E id \in SysIds : RegistryCleanupActor(id)

SpecMonitor == InitSystem /\ [][NextMonitor]_vars

\* SpecNames: the named registry and SpawnGenServer. Users spawn actors,
\* register and unregister names for the refs they were given, call
\* UnregisterActor, spawn the server "C" with and without a name and with an
\* InitFunc that succeeds or fails, and send messages to the server
NamesSpawnGenServer ==
    \E id \in GsIds, n \in Names \cup {NoName} :
        /\ gsCreated[id] < MaxSpawns
        /\ SpawnGenServerNew(id, n)
NamesSendNamedMessage ==
    \E n \in Names :
        /\ Lookup(NameMaps, n) # NoRef
        /\ RefID(Lookup(NameMaps, n)) \in GsIds
        /\ SendNamedMessage(n)

NextNames ==
    \/ \E id \in Ids : SpawnActor(id)
    \/ \E n \in Names, ref \in UserRefs : RegisterName(n, ref)
    \/ \E n \in Names : UnregisterName(n)
    \/ \E id \in SysIds : NamesUnregisterActor(id)
    \/ NamesSpawnGenServer
    \/ \E err \in Errs : SpawnGenServerInit(err)
    \/ SpawnGenServerRegister
    \/ \E id \in GsIds : SendMessage(id)
    \/ NamesSendNamedMessage

SpecNames == InitSystem /\ [][NextNames]_vars

\* SpecSystem: failure notification. Users spawn the actors "A" and "B",
\* link and unlink them, give them the name "n1", stop them and call
\* NotifyFailure from two goroutines, the second one only while the first
\* is busy. The monitors' mailboxes have room
RECURSIVE SumCalls(_)
SumCalls(pairs) ==
    IF pairs = {} THEN 0
    ELSE LET pr == CHOOSE x \in pairs : TRUE
         IN  monitorCalls[pr[1]][pr[2]] + SumCalls(pairs \ {pr})

SystemMonitorAny ==
    \E m \in Ids, t \in Ids, k \in MonitorTypes :
        /\ SumCalls(SysIds \X SysIds) < MaxMonitorCalls
        /\ SystemMonitor(m, t, k)
SystemNotifyFailure ==
    \E p \in Notifiers, id \in Ids :
        /\ notifies < MaxNotifies
        /\ p = "f2" => notifyPc["f1"] # "idle"
        /\ NotifyFailure(p, id)

NextSystem ==
    \/ \E id \in Ids : SpawnActor(id)
    \/ SystemMonitorAny
    \/ \E m \in Ids, t \in Ids : SystemDemonitor(m, t)
    \/ \E ref \in UserRefs : RegisterName("n1", ref)
    \/ \E id \in Ids : ActorStop(id)
    \/ SystemNotifyFailure
    \/ \E p \in Notifiers : NotifyGetMonitors(p)
    \/ \E p \in Notifiers, m \in Ids : NotifySend(p, m, TRUE)
    \/ \E p \in Notifiers : NotifyUnregisterActor(p)
    \/ \E p \in Notifiers : NotifyCleanupActor(p)
    \/ RegistryLockBlocked

SpecSystem == InitSystem /\ [][NextSystem]_vars

\* SpecStop: an actor stops. Users spawn the actors "A" and "B", link them,
\* stop them and call NotifyFailure from one goroutine. A call that has
\* begun runs on; users need not call anything
StopMonitor ==
    \E m \in Ids, t \in Ids, k \in MonitorTypes :
        /\ SumCalls(SysIds \X SysIds) < MaxStopMonitors
        /\ SystemMonitor(m, t, k)
StopNotifyFailure ==
    \E id \in Ids :
        /\ notifies < MaxStopNotifies
        /\ NotifyFailure("f1", id)

NextStop ==
    \/ \E id \in Ids : SpawnActor(id)
    \/ StopMonitor
    \/ \E id \in Ids : ActorStop(id)
    \/ StopNotifyFailure
    \/ NotifyGetMonitors("f1")
    \/ \E m \in Ids : NotifySend("f1", m, TRUE)
    \/ NotifyUnregisterActor("f1")
    \/ NotifyCleanupActor("f1")

\* the steps of a NotifyFailure call that has begun: its goroutine keeps
\* running
StopNotifyRuns ==
    \/ NotifyGetMonitors("f1")
    \/ \E m \in Ids : NotifySend("f1", m, TRUE)
    \/ NotifyUnregisterActor("f1")
    \/ NotifyCleanupActor("f1")

SpecStop == InitSystem /\ [][NextStop]_vars /\ WF_vars(StopNotifyRuns)

\* SpecCleanup: what NotifyFailure leaves behind. One goroutine calls
\* NotifyFailure, one call after the other, while users spawn "A" and then
\* "B", link the one to the other, name them and stop them. The monitors'
\* mailboxes have room, so a send fails when the monitor is stopped
CleanupSpawnActor ==
    \E id \in Ids :
        /\ id = "B" => registry["A"] # NoRef
        /\ SpawnActor(id)
CleanupMonitor ==
    \E m \in Ids, t \in Ids, k \in MonitorTypes :
        /\ m # t
        /\ SumCalls(SysIds \X SysIds) < MaxCleanupMonitors
        /\ SystemMonitor(m, t, k)
CleanupNotifyFailure ==
    \E id \in Ids :
        /\ notifies < MaxCleanupNotifies
        /\ NotifyFailure("f1", id)

NextCleanup ==
    \/ CleanupSpawnActor
    \/ CleanupMonitor
    \/ \E ref \in UserRefs : RegisterName("n1", ref)
    \/ \E id \in Ids : ActorStop(id)
    \/ CleanupNotifyFailure
    \/ NotifyGetMonitors("f1")
    \/ \E m \in Ids : NotifySend("f1", m, TRUE)
    \/ NotifyUnregisterActor("f1")
    \/ NotifyCleanupActor("f1")

SpecCleanup == InitSystem /\ [][NextCleanup]_vars

\* ---------------------------------------------------------------------
\* The fan-out of one MonitorMessage: actors A and B and the server C, B and
\* C monitor A, NotifyFailure runs for A while the monitors' workers receive
\* ---------------------------------------------------------------------
MaxFanoutSpawns == 1
MaxFanoutMonitors == 1
MaxFanoutNotifies == 1

FanoutSpawnGenServer ==
    /\ gsCreated["C"] < MaxFanoutSpawns
    /\ SpawnGenServerNew("C", "n1")

FanoutMonitor ==
    \E m \in SysIds \ {"A"} :
        /\ monitorCalls[m]["A"] < MaxFanoutMonitors
        /\ SystemMonitor(m, "A", "OneWay")

FanoutNotifyFailure ==
    /\ notifies < MaxFanoutNotifies
    /\ NotifyFailure("f1", "A")

NextFanout ==
    \/ \E id \in Ids : SpawnActor(id)
    \/ FanoutSpawnGenServer
    \/ SpawnGenServerInit(NoErr)
    \/ SpawnGenServerRegister
    \/ FanoutMonitor
    \/ ActorStop("A")
    \/ FanoutNotifyFailure
    \/ NotifyGetMonitors("f1")
    \/ \E m \in SysIds : NotifySend("f1", m, TRUE)
    \/ NotifyUnregisterActor("f1")
    \/ NotifyCleanupActor("f1")
    \/ \E id \in SysIds : MonitorReceive(id)

SpecFanout == InitSystem /\ [][NextFanout]_vars

\* ---------------------------------------------------------------------
\* SpecBackoff: the delayed retry. Strategies that back off instead of
\* terminating; a user adds children, reports failures and may call Stop,
\* and the supervisor's worker, the retry goroutines and the clock keep
\* running
\* ---------------------------------------------------------------------
MaxBackoffAdds == 1
MaxBackoffReports == 2

\* a breaker that never trips and counts the failures of the last second
BackoffBreaker ==
    [tripThreshold |-> DisabledTripThreshold, failureWindow |-> 1,
     resetTimeout |-> 0, successThreshold |-> DisabledSuccessThreshold]

BackoffStrategies ==
    {StrategyOf("OneForOne", 1, 2, FALSE, "LinearBackoff", BackoffBreaker),
     StrategyOf("OneForOne", 1, 1, FALSE, "ExponentialBackoff", BackoffBreaker)}

InitBackoff == ActorInit /\ SysInit /\ \E st \in BackoffStrategies : SupInit(st)

BackoffAddChild == adds < MaxBackoffAdds /\ AddChild("A", "Permanent")

BackoffReport ==
    /\ reports < MaxBackoffReports
    /\ Len(supMailbox) < MaxPending
    /\ NotifyChildFailure("A", "boom")

\* the steps of the goroutines the supervisor itself runs
BackoffRuns ==
    \/ SupWorkerSelect
    \/ \E i \in 1 .. Len(retries) : RetryWake(i)
    \/ \E i \in 1 .. Len(retries) : RetryNotify(i)

NextBackoff ==
    \/ BackoffAddChild
    \/ BackoffReport
    \/ SupWorkerSelect
    \/ \E i \in 1 .. Len(retries) : RetryWake(i)
    \/ \E i \in 1 .. Len(retries) : RetryNotify(i)
    \/ Elapse
    \/ SupStopBegin("user")
    \/ SupStopRemove("user")
    \/ SupStopFinish("user")
    \/ SupStopActor("user")
    \/ SupStopWait("user")

SpecBackoff ==
    InitBackoff /\ [][NextBackoff]_vars /\ WF_vars(BackoffRuns) /\ WF_vars(Elapse)

\* ---------------------------------------------------------------------
\* SpecCalc: CalculateBackoff as a function. A caller holds a strategy with
\* a positive base delay no longer than its maximum delay and asks for the
\* delays of a restart count and of the next one
\* ---------------------------------------------------------------------
Millisecond == Duration(1000000)
Second == Duration(1000000000)
Hour == Mul64(Second, 3600)

CalcBases == {Millisecond, Second, Hour}
CalcMaxes == {Second, Mul64(Second, 30), Hour, Mul64(Hour, 24)}
CalcKinds == {"LinearBackoff", "ExponentialBackoff"}
CalcRestarts == 0 .. 5 \cup {20, 34, 35, 44, 54, 63, 64, 65, 100, 3000000, 30000000}

CalcInputs ==
    {c \in {[pc |-> "call", backoffStrategy |-> k, baseBackoff |-> b,
             maxBackoff |-> m, restarts |-> n,
             delay |-> Duration(0), nextDelay |-> Duration(0)] :
                 k \in CalcKinds, n \in CalcRestarts,
                 b \in CalcBases, m \in CalcMaxes} :
        ~Less64(c.maxBackoff, c.baseBackoff)}

InitCalc ==
    /\ ActorInit
    /\ SysInitCore
    /\ SupInit(DefaultStrategy)
    /\ calc \in CalcInputs

\* CalculateBackoff(restarts) and CalculateBackoff(restarts + 1) return
CalcReturn ==
    /\ calc.pc = "call"
    /\ calc' = [calc EXCEPT
          !.pc = "done",
          !.delay = CalculateBackoffNs(calc.backoffStrategy, calc.baseBackoff,
                                       calc.maxBackoff, calc.restarts),
          !.nextDelay = CalculateBackoffNs(calc.backoffStrategy, calc.baseBackoff,
                                           calc.maxBackoff, calc.restarts + 1)]
    /\ UNCHANGED <<actorVars, supVars, monVars, nameVars, gsVars, notifyVars,
                   sysRunning, sysMu, registry, shareVars, serverVars,
                   typedVars>>

NextCalc == CalcReturn

SpecCalc == InitCalc /\ [][NextCalc]_vars

\* ---------------------------------------------------------------------
\* SpecShared: one breaker called by two goroutines. DefaultCircuitBreaker
\* has no lock: cb.failures++ in RecordFailure is a read and a later write,
\* and the other goroutine's calls fall between the two. The clock stands
\* still, so no window expires and no timeout passes
\* ---------------------------------------------------------------------
MaxSharedFailures == 3
MaxSharedOther == 2

InitShared ==
    ActorInit /\ SysInit /\ SupInit(StrategyOf("OneForOne", 0, 1, TRUE, "NoBackoff", SmallBreaker))

\* the frame of a breaker call
SharedFrame ==
    UNCHANGED <<strategy, status, children, childRefs, childSpecs,
                childOrder, restartHistory, lastFailure, supMailbox,
                supStopped, supMu, supWorkerPc, supWorkerErr, supLastError,
                created, runningActors, supStopPc, stopChildIDs,
                stopSnapshot, retries, now, reports, adds, handled,
                actorVars, notifyReturned, cbCalls, monVars, nameVars,
                gsVars, notifyVars, sysRunning, sysMu, registry, calc,
                serverVars, typedVars>>

\* RecordFailure up to the read of cb.failures++: the window check, which
\* may zero cb.failures, then the load of cb.failures
SharedRecordFailureRead(p) ==
    /\ shPc[p] = "idle"
    /\ shRecorded + Cardinality({q \in Sharers : shPc[q] = "write"}) < MaxSharedFailures
    /\ LET expired == cb.lastFailure # NoTime
                      /\ now - cb.lastFailure > strategy.breaker.failureWindow
       IN  /\ cb' = IF expired THEN [cb EXCEPT !.failures = 0] ELSE cb
           /\ shReg' = [shReg EXCEPT ![p] = IF expired THEN 0 ELSE cb.failures]
    /\ shPc' = [shPc EXCEPT ![p] = "write"]
    /\ UNCHANGED <<shRecorded, shOther>>
    /\ SharedFrame

\* RecordFailure from the store of cb.failures++ to its return: the value
\* stored is the one loaded plus 1
SharedRecordFailureWrite(p) ==
    /\ shPc[p] = "write"
    /\ cb' = CBRecordFailure([cb EXCEPT !.failures = shReg[p],
                                        !.lastFailure = NoTime], now)
    /\ shPc' = [shPc EXCEPT ![p] = "idle"]
    /\ shRecorded' = shRecorded + 1
    /\ UNCHANGED <<shReg, shOther>>
    /\ SharedFrame

SharedGetState(p) ==
    /\ shPc[p] = "idle"
    /\ shOther < MaxSharedOther
    /\ cb' = CBGetState(cb, now)
    /\ shOther' = shOther + 1
    /\ UNCHANGED <<shPc, shReg, shRecorded>>
    /\ SharedFrame

SharedRecordSuccess(p) ==
    /\ shPc[p] = "idle"
    /\ shOther < MaxSharedOther
    /\ cb' = CBRecordSuccess(cb, now)
    /\ shOther' = shOther + 1
    /\ UNCHANGED <<shPc, shReg, shRecorded>>
    /\ SharedFrame

SharedReset(p) ==
    /\ shPc[p] = "idle"
    /\ shOther < MaxSharedOther
    /\ cb' = CBReset(cb, now)
    /\ shOther' = shOther + 1
    /\ shRecorded' = 0
    /\ UNCHANGED <<shPc, shReg>>
    /\ SharedFrame

NextShared ==
    \/ \E p \in Sharers : SharedRecordFailureRead(p)
    \/ \E p \in Sharers : SharedRecordFailureWrite(p)
    \/ \E p \in Sharers : SharedGetState(p)
    \/ \E p \in Sharers : SharedRecordSuccess(p)
    \/ \E p \in Sharers : SharedReset(p)

SpecShared == InitShared /\ [][NextShared]_vars

(***************************************************************************)
(* GenServer (genserver package): one server whose CallHandler replies     *)
(* with the state and whose handlers all return state + 1, with a          *)
(* TerminateFunc. The server's actor has a mailbox no exploration fills.   *)
(***************************************************************************)
ServerFrame ==
    UNCHANGED <<actorVars, supVars, monVars, nameVars, gsVars, notifyVars,
                sysRunning, sysMu, registry, calc, shareVars, typedVars>>

\* DefaultActor.Receive on the server's actor: it takes a.mu.RLock(), so it
\* waits while Stop holds a.mu; ErrActorStopped once a.stopped is set
ServerSendErr == IF srvActorStopped THEN "ActorStopped" ELSE NoErr

\* MakeCast(ctx, to, payload)
MakeCast ==
    /\ srvActorMu = None
    /\ srvCasts' = srvCasts + 1
    /\ srvQueue' = IF ServerSendErr = NoErr
                   THEN Append(srvQueue, [kind |-> "cast", from |-> None, n |-> 0])
                   ELSE srvQueue
    /\ UNCHANGED <<srvState, srvWorkerPc, srvCur, srvStopPc, srvSnap,
                   srvTerminated, srvClosed, srvActorStopped, srvActorMu,
                   srvHandled, callPc, callSeq, srvReplies, callResults>>
    /\ ServerFrame

\* MakeCallSync up to its select: a reply channel of capacity 1 is made, the
\* CallMessage is sent; when Send fails the call returns its error
MakeCallSyncSend(c) ==
    /\ callPc[c] = "idle"
    /\ srvActorMu = None
    /\ callSeq' = [callSeq EXCEPT ![c] = @ + 1]
    /\ IF ServerSendErr = NoErr
       THEN /\ srvQueue' = Append(srvQueue, [kind |-> "call", from |-> c,
                                             n |-> callSeq[c] + 1])
            /\ callPc' = [callPc EXCEPT ![c] = "wait"]
            /\ UNCHANGED callResults
       ELSE /\ callResults' = Append(callResults,
                   [from |-> c, n |-> callSeq[c] + 1, result |-> ServerSendErr,
                    reply |-> 0])
            /\ UNCHANGED <<srvQueue, callPc>>
    /\ UNCHANGED <<srvState, srvWorkerPc, srvCur, srvStopPc, srvSnap,
                   srvTerminated, srvClosed, srvActorStopped, srvActorMu,
                   srvHandled, srvCasts, srvReplies>>
    /\ ServerFrame

\* MakeCallSync: case reply := <-replyCh
MakeCallSyncReply(c) ==
    /\ callPc[c] = "wait"
    /\ \E r \in srvReplies :
          /\ r.from = c /\ r.n = callSeq[c]
          /\ srvReplies' = srvReplies \ {r}
          /\ callResults' = Append(callResults,
                 [from |-> c, n |-> callSeq[c], result |-> NoErr,
                  reply |-> r.reply])
    /\ callPc' = [callPc EXCEPT ![c] = "idle"]
    /\ UNCHANGED <<srvState, srvQueue, srvWorkerPc, srvCur, srvStopPc,
                   srvSnap, srvTerminated, srvClosed, srvActorStopped,
                   srvActorMu, srvHandled, srvCasts, callSeq>>
    /\ ServerFrame

\* MakeCallSync: case <-callCtx.Done(), the timeout has passed; a reply
\* that is ready too may lose the select
MakeCallSyncTimeout(c) ==
    /\ callPc[c] = "wait"
    /\ callResults' = Append(callResults,
           [from |-> c, n |-> callSeq[c], result |-> "DeadlineExceeded",
            reply |-> 0])
    /\ callPc' = [callPc EXCEPT ![c] = "idle"]
    /\ UNCHANGED <<srvState, srvQueue, srvWorkerPc, srvCur, srvStopPc,
                   srvSnap, srvTerminated, srvClosed, srvActorStopped,
                   srvActorMu, srvHandled, srvCasts, callSeq, srvReplies>>
    /\ ServerFrame

\* processMessages of the server's actor takes a message and processMessage
\* locks g.mu; a cancelled context does not stop the select from taking a
\* message that is ready
ServerTake ==
    /\ srvWorkerPc = "select"
    /\ srvQueue # <<>>
    /\ srvCur' = Head(srvQueue)
    /\ srvQueue' = Tail(srvQueue)
    /\ srvWorkerPc' = "handling"
    /\ UNCHANGED <<srvState, srvStopPc, srvSnap, srvTerminated, srvClosed,
                   srvActorStopped, srvActorMu, srvHandled, srvCasts, callPc,
                   callSeq, srvReplies, callResults>>
    /\ ServerFrame

\* the select on m.ReplyTo with no default case on a channel without a
\* buffer: it is ready only while the caller still waits
ReplySelect_Blocking(m) ==
    IF callPc[m.from] = "wait" /\ callSeq[m.from] = m.n THEN "sent" ELSE "blocked"

\* select { case m.ReplyTo <- reply: default: } on the call's channel of
\* capacity 1: the branch taken
ReplySelect(m) ==
    IF \E r \in srvReplies : r.from = m.from /\ r.n = m.n THEN "default" ELSE "sent"

\* processMessage from the handler's return to its own: the reply of a call
\* is offered, g.state = newState, g.mu is released
ServerFinish ==
    /\ srvWorkerPc = "handling"
    /\ srvCur.kind = "call" => ReplySelect(srvCur) # "blocked"
    /\ srvReplies' = IF srvCur.kind = "call" /\ ReplySelect(srvCur) = "sent"
                     THEN srvReplies \cup {[from |-> srvCur.from, n |-> srvCur.n,
                                            reply |-> srvState]}
                     ELSE srvReplies
    /\ srvState' = srvState + 1
    /\ srvHandled' = Append(srvHandled,
           [msg |-> srvCur,
            waited |-> srvCur.kind = "call" /\ callPc[srvCur.from] = "wait"
                       /\ callSeq[srvCur.from] = srvCur.n,
            terminated |-> srvTerminated # <<>>])
    /\ srvCur' = NoMessage
    /\ srvWorkerPc' = "select"
    /\ UNCHANGED <<srvQueue, srvStopPc, srvSnap, srvTerminated, srvClosed,
                   srvActorStopped, srvActorMu, srvCasts, callPc, callSeq,
                   callResults>>
    /\ ServerFrame

\* processMessages: case <-a.ctx.Done(): return
ServerExit ==
    /\ srvWorkerPc = "select"
    /\ srvActorStopped
    /\ srvWorkerPc' = "done"
    /\ UNCHANGED <<srvState, srvQueue, srvCur, srvStopPc, srvSnap,
                   srvTerminated, srvClosed, srvActorStopped, srvActorMu,
                   srvHandled, srvCasts, callPc, callSeq, srvReplies,
                   callResults>>
    /\ ServerFrame

\* GenServer.Stop: under g.mu, which processMessage holds while it handles,
\* read options.TerminateFunc and g.state
ServerStopBegin(k) ==
    /\ srvStopPc[k] = "idle"
    /\ srvWorkerPc # "handling"
    /\ srvSnap' = [srvSnap EXCEPT ![k] = srvState]
    /\ srvStopPc' = [srvStopPc EXCEPT ![k] = "terminate"]
    /\ UNCHANGED <<srvState, srvQueue, srvWorkerPc, srvCur, srvTerminated,
                   srvClosed, srvActorStopped, srvActorMu, srvHandled,
                   srvCasts, callPc, callSeq, srvReplies, callResults>>
    /\ ServerFrame

\* GenServer.Stop: terminateFunc(context.Background(), nil, state)
ServerStopTerminate(k) ==
    /\ srvStopPc[k] = "terminate"
    /\ srvTerminated' = Append(srvTerminated,
           [by |-> k, reason |-> NoErr, state |-> srvSnap[k]])
    /\ srvStopPc' = [srvStopPc EXCEPT ![k] = "close"]
    /\ UNCHANGED <<srvState, srvQueue, srvWorkerPc, srvCur, srvSnap,
                   srvClosed, srvActorStopped, srvActorMu, srvHandled,
                   srvCasts, callPc, callSeq, srvReplies, callResults>>
    /\ ServerFrame

\* GenServer.Stop: close(g.terminateCh), which panics on a closed channel
ServerStopClose(k) ==
    /\ srvStopPc[k] = "close"
    /\ srvClosed' = TRUE
    /\ srvStopPc' = [srvStopPc EXCEPT ![k] =
           IF srvClosed THEN "panicked" ELSE "actorStop"]
    /\ UNCHANGED <<srvState, srvQueue, srvWorkerPc, srvCur, srvSnap,
                   srvTerminated, srvActorStopped, srvActorMu, srvHandled,
                   srvCasts, callPc, callSeq, srvReplies, callResults>>
    /\ ServerFrame

\* GenServer.Stop: g.DefaultActor.Stop() takes a.mu; it returns nil when
\* a.stopped is set, else it sets it, cancels the context and waits for the
\* worker with a.mu held
ServerStopActor(k) ==
    /\ srvStopPc[k] = "actorStop"
    /\ srvActorMu = None
    /\ IF srvActorStopped
       THEN /\ srvStopPc' = [srvStopPc EXCEPT ![k] = "returned"]
            /\ UNCHANGED <<srvActorStopped, srvActorMu>>
       ELSE /\ srvActorStopped' = TRUE
            /\ srvActorMu' = k
            /\ srvStopPc' = [srvStopPc EXCEPT ![k] = "wait"]
    /\ UNCHANGED <<srvState, srvQueue, srvWorkerPc, srvCur, srvSnap,
                   srvTerminated, srvClosed, srvHandled, srvCasts, callPc,
                   callSeq, srvReplies, callResults>>
    /\ ServerFrame

\* DefaultActor.Stop: a.wg.Wait() returns, the mailbox is closed, a.mu is
\* released and Stop returns nil
ServerStopWait(k) ==
    /\ srvStopPc[k] = "wait"
    /\ srvWorkerPc = "done"
    /\ srvActorMu' = None
    /\ srvStopPc' = [srvStopPc EXCEPT ![k] = "returned"]
    /\ UNCHANGED <<srvState, srvQueue, srvWorkerPc, srvCur, srvSnap,
                   srvTerminated, srvClosed, srvActorStopped, srvHandled,
                   srvCasts, callPc, callSeq, srvReplies, callResults>>
    /\ ServerFrame

\* ---------------------------------------------------------------------
\* SpecServerStop: Stop of a GenServer, by two callers, while casts sit in
\* the mailbox and the worker runs
\* ---------------------------------------------------------------------
MaxServerCasts == 2

ServerStopCast == srvCasts < MaxServerCasts /\ MakeCast

NextServerStop ==
    \/ ServerStopCast
    \/ ServerTake
    \/ ServerFinish
    \/ ServerExit
    \/ \E k \in Stoppers : ServerStopBegin(k)
    \/ \E k \in Stoppers : ServerStopTerminate(k)
    \/ \E k \in Stoppers : ServerStopClose(k)
    \/ \E k \in Stoppers : ServerStopActor(k)
    \/ \E k \in Stoppers : ServerStopWait(k)

SpecServerStop == InitSystem /\ [][NextServerStop]_vars

\* ---------------------------------------------------------------------
\* SpecCall: MakeCallSync against a running GenServer. Two callers call
\* with timeouts that may pass at any moment; the worker keeps running and
\* a caller whose reply is ready takes it unless its timeout passes
\* ---------------------------------------------------------------------
MaxCalls == 1

CallSend == \E c \in Callers : callSeq[c] < MaxCalls /\ MakeCallSyncSend(c)

\* the steps of the server's worker
ServerRuns == ServerTake \/ ServerFinish

NextCall ==
    \/ CallSend
    \/ \E c \in Callers : MakeCallSyncReply(c)
    \/ \E c \in Callers : MakeCallSyncTimeout(c)
    \/ ServerTake
    \/ ServerFinish

SpecCall == InitSystem /\ [][NextCall]_vars /\ WF_vars(ServerRuns)

(***************************************************************************)
(* Registry (system/registry.go): actors by type and by tag, and the       *)
(* broadcasts. Every call runs under r.mu.                                 *)
(***************************************************************************)
TypedFrame ==
    UNCHANGED <<actorVars, supVars, monVars, nameVars, gsVars, notifyVars,
                sysRunning, sysMu, registry, calc, shareVars, serverVars>>

\* Unregister's loop over the tags of actorID: for each one, in order, the
\* first actorID is cut out of r.actorTags[tag] (RemoveFirst)
RECURSIVE UntagAll(_, _, _)
UntagAll(byTag, tags, id) ==
    IF tags = <<>> THEN byTag
    ELSE UntagAll([byTag EXCEPT ![Head(tags)] = RemoveFirst(@, id)], Tail(tags), id)

\* Register(actorRef, actorType)
Register_Typed(id, type) ==
    /\ regActors' = regActors \cup {id}
    /\ actorsByType' = [actorsByType EXCEPT ![type] = Append(@, id)]
    /\ actorTypes' = [actorTypes EXCEPT ![id] = type]
    /\ regCalls' = regCalls + 1
    /\ UNCHANGED <<actorTags, actorsByTag, lastCast>>
    /\ TypedFrame

\* Unregister(actorID)
Unregister_Typed(id) ==
    /\ regActors' = regActors \ {id}
    /\ IF actorTypes[id] # None
       THEN /\ actorsByType' = [actorsByType EXCEPT ![actorTypes[id]] =
                                   RemoveFirst(@, id)]
            /\ actorTypes' = [actorTypes EXCEPT ![id] = None]
       ELSE UNCHANGED <<actorsByType, actorTypes>>
    /\ actorTags' = UntagAll(actorTags, actorsByTag[id], id)
    /\ actorsByTag' = [actorsByTag EXCEPT ![id] = <<>>]
    /\ regCalls' = regCalls + 1
    /\ UNCHANGED lastCast
    /\ TypedFrame

\* TagActor(actorID, tag): false and no change for an id not in r.actors
TagActor(id, tag) ==
    /\ IF id \in regActors
       THEN /\ actorTags' = [actorTags EXCEPT ![tag] = Append(@, id)]
            /\ actorsByTag' = [actorsByTag EXCEPT ![id] = Append(@, tag)]
       ELSE UNCHANGED <<actorTags, actorsByTag>>
    /\ regCalls' = regCalls + 1
    /\ UNCHANGED <<regActors, actorsByType, actorTypes, lastCast>>
    /\ TypedFrame

\* GetActorsByType / GetActorsByTag: the refs of the listed ids that are in
\* r.actors, one per entry of the list
Listed(list) == SelectSeq(list, LAMBDA id : id \in regActors)

\* BroadcastToType(ctx, actorType, message): one goroutine with one Send per
\* entry of GetActorsByType, or ErrNoActorsOfType when there is none
BroadcastToType(type) ==
    /\ lastCast' = [kind |-> "type", key |-> type,
                    targets |-> {id \in regActors : actorTypes[id] = type},
                    sends |-> Listed(actorsByType[type]),
                    result |-> IF Listed(actorsByType[type]) = <<>>
                               THEN "NoActorsOfType" ELSE NoErr]
    /\ UNCHANGED <<regActors, actorsByType, actorTypes, actorTags, actorsByTag,
                   regCalls>>
    /\ TypedFrame

\* BroadcastToTag(ctx, tag, message)
BroadcastToTag(tag) ==
    /\ lastCast' = [kind |-> "tag", key |-> tag,
                    targets |-> {id \in regActors :
                                    \E i \in 1 .. Len(actorsByTag[id]) :
                                        actorsByTag[id][i] = tag},
                    sends |-> Listed(actorTags[tag]),
                    result |-> IF Listed(actorTags[tag]) = <<>>
                               THEN "NoActorsWithTag" ELSE NoErr]
    /\ UNCHANGED <<regActors, actorsByType, actorTypes, actorTags, actorsByTag,
                   regCalls>>
    /\ TypedFrame

\* ---------------------------------------------------------------------
\* SpecTyped: a user registers, tags and unregisters two actors in any
\* order and broadcasts to a type or a tag
\* ---------------------------------------------------------------------
MaxRegistryCalls == 3

NextTyped ==
    \/ \E id \in Ids, t \in ActorTypes :
          regCalls < MaxRegistryCalls /\ Register_Typed(id, t)
    \/ \E id \in Ids : regCalls < MaxRegistryCalls /\ Unregister_Typed(id)
    \/ \E id \in Ids, g \in Tags : regCalls < MaxRegistryCalls /\ TagActor(id, g)
    \/ \E t \in ActorTypes : BroadcastToType(t)
    \/ \E g \in Tags : BroadcastToTag(g)

SpecTyped == InitSystem /\ [][NextTyped]_vars

(***************************************************************************)
(* Properties.                                                             *)
(***************************************************************************)
Count(seq, x) == Cardinality({i \in 1 .. Len(seq) : seq[i] = x})

IsPrefix(a, b) == Len(a) <= Len(b) /\ \A i \in 1 .. Len(a) : a[i] = b[i]

Last(seq) == seq[Len(seq)]

\* C1: children, childRefs and childSpecs have the same key set, it is the
\* set of ids in childOrder, and no id occurs twice in childOrder.
C1_KeySetsAgree ==
    /\ Keys(children, 0) = Keys(childRefs, 0)
    /\ Keys(children, 0) = Keys(childSpecs, None)
    /\ Keys(children, 0) = Range(childOrder)
    /\ Len(childOrder) = Cardinality(Range(childOrder))

\* C2: when Stop() has returned, the status is Stopped and every actor that
\* was a child in childOrder when Stop was called is stopped.
C2_StopStopsChildren ==
    \A p \in StopCallers :
        supStopPc[p] = "returned" =>
            /\ status = "Stopped"
            /\ stopSnapshot[p] \cap runningActors = {}

\* C3: Stop and the recording of lastError never wait on each other: Stop
\* never holds a.mu waiting for the worker while the worker waits for a.mu
\* in setLastError.
C3_StopNeverWaitsOnLastError ==
    ~ \E k \in Stoppers :
          /\ stopPc[k] \in {"cancel", "wait"}
          /\ mu = k
          /\ workerPc = "setLastError"

SendOutcomes == {"Ok", "DeadlineExceeded", "ActorStopped", "MailboxFull"}

\* C4: every send, also one that races with Stop, returns Ok,
\* DeadlineExceeded, ActorStopped or MailboxFull; no sender crashes on the
\* closed mailbox.
C4_SendNeverPanics ==
    /\ ~crashed
    /\ \A s \in Senders : \A i \in 1 .. Len(sendResults[s]) :
          sendResults[s][i].result \in SendOutcomes

\* C5: stopped only changes from false to true; once a Stop() has returned,
\* IsRunning() stays false, a send that begins returns ActorStopped at once
\* and enqueues nothing, the receive function is not invoked again, and a
\* further Stop() returns and changes nothing.
C5_StoppedForever ==
    [][/\ stopped => stopped'
       /\ StopReturned =>
            /\ ~IsRunning /\ ~IsRunning'
            /\ delivered' = delivered
            /\ workerPc' = workerPc
            /\ UNCHANGED <<mailbox, enqueued, mailboxClosed, ctxDone, lastError, mu>>
            /\ \A s \in Senders :
                  sendSeq'[s] # sendSeq[s] =>
                     /\ sendPc'[s] = "idle"
                     /\ sendResults'[s] = Append(sendResults[s],
                           [msg |-> Msg(s, sendSeq'[s]), result |-> "ActorStopped"])
            /\ \A k \in Stoppers :
                  stopPc'[k] # stopPc[k] => stopPc'[k] = "returned"
      ]_vars

\* a send began after a Stop() had returned and got ActorStopped, and a second
\* Stop() returned as well
C5_Witness ==
    /\ \A k \in Stoppers : stopPc[k] = "returned"
    /\ \E s \in Senders :
          /\ sendAfterStop[s]
          /\ sendPc[s] = "idle"
          /\ Last(sendResults[s]).result = "ActorStopped"

\* the messages of sender s whose send returned Ok, in send order
OkMsgs(s) ==
    LET isOk(r) == r.result = "Ok"
        ok == SelectSeq(sendResults[s], isOk)
    IN  [i \in 1 .. Len(ok) |-> ok[i].msg]

\* the messages of sender s the receive function was invoked on, in order
DeliveredFrom(s) ==
    LET from(m) == m[1] = s
    IN  SelectSeq(delivered, from)

\* C6: the receive function is invoked on a sender's messages in the order of
\* the sender's successful sends, and an invocation starts only when no other
\* invocation is running.
C6_FifoPerSender ==
    /\ [](\A s \in Senders : IsPrefix(DeliveredFrom(s), OkMsgs(s)))
    /\ [][delivered' # delivered =>
             /\ workerPc = "select"
             /\ workerPc' = "receiver"
             /\ Len(delivered') = Len(delivered) + 1]_vars

\* the receive function ran on all the messages of s1, after both of the
\* first two were waiting in the mailbox together
C6_Witness ==
    /\ Len(DeliveredFrom("s1")) = MaxSends
    /\ Len(enqueued) >= 2 /\ enqueued[1] = Msg("s1", 1) /\ enqueued[2] = Msg("s1", 2)
    /\ delivered[1] = Msg("s1", 1)

C8_FullMailbox ==
    /\ [](\A s \in Senders :
            /\ \A i \in 1 .. Len(sendResults[s]) :
                  Count(enqueued, sendResults[s][i].msg) =
                     (IF sendResults[s][i].result = "Ok" THEN 1 ELSE 0)
            /\ sendPc[s] \in {"select1", "select2"} =>
                  Count(enqueued, Msg(s, sendSeq[s])) = 0)
    /\ [][\A s \in Senders :
            sendResults'[s] # sendResults[s] =>
               LET r == Last(sendResults'[s])
                   full == Len(mailbox) = MailboxCap /\ ~mailboxClosed
               IN  /\ r.result = "Ok" =>
                         /\ ~full
                         /\ mailbox' = Append(mailbox, r.msg)
                   /\ r.result # "Ok" => mailbox' = mailbox
                   /\ r.result = "MailboxFull" =>
                         sendPc[s] = "select2" /\ timerFired[s]
                   /\ r.result = "DeadlineExceeded" => sendCtx[s].expired
                   /\ (full /\ ~ctxDone /\ sendPc[s] = "select2") =>
                         /\ (timerFired[s] /\ ~sendCtx[s].expired) =>
                               r.result = "MailboxFull"
                         /\ (sendCtx[s].expired /\ ~timerFired[s]) =>
                               r.result = "DeadlineExceeded"
                         /\ r.result \in {"MailboxFull", "DeadlineExceeded"}
         ]_vars

\* with the mailbox full and the actor running, one send has returned
\* MailboxFull and another DeadlineExceeded
C8_Witness ==
    /\ Len(mailbox) = MailboxCap
    /\ ~stopped
    /\ \E s \in Senders : \E i \in 1 .. Len(sendResults[s]) :
          sendResults[s][i].result = "MailboxFull"
    /\ \E s \in Senders : \E i \in 1 .. Len(sendResults[s]) :
          sendResults[s][i].result = "DeadlineExceeded"
    /\ Len(delivered) = 0

\* the handled reports are all about one Permanent child, under
\* max_restarts = 2 with terminate_on_max_restarts, the default breaker, and
\* a window that covers all of them
C9_Scenario ==
    /\ strategy.maxRestarts = 2
    /\ strategy.terminateOnMaxRestarts
    /\ strategy.breaker = DisabledBreaker
    /\ Len(handled) > 0
    /\ \A i \in 1 .. Len(handled) :
          /\ handled[i].childID = handled[1].childID
          /\ handled[i].spec = "Permanent"
          /\ handled[i].at > Last(handled).at - strategy.timeInterval

\* C9 as claimed: the first three reports are handled by restarting the
\* child and the fourth yields TooManyRestarts.
C9_FourthReportTerminates ==
    C9_Scenario =>
        \A i \in 1 .. Len(handled) :
            /\ i <= 3 => handled[i].result = "restarted"
            /\ i = 4 => handled[i].result = "TooManyRestarts"

\* C9 as amended: the first two reports are handled by restarting the child,
\* the third yields TooManyRestarts and moves the status to Stopping and,
\* when the supervisor's Stop has run, Stopped; the fourth is ignored.
C9_ThirdReportTerminates ==
    C9_Scenario =>
        /\ \A i \in 1 .. Len(handled) :
              /\ i <= 2 => handled[i].result = "restarted"
              /\ i = 3 => handled[i].result = "TooManyRestarts"
              /\ i >= 4 => handled[i].result = "ignored"
        /\ Len(handled) <= 2 => status = "Running"
        /\ Len(handled) >= 3 => status \in {"Stopping", "Stopped"}
        /\ (Len(handled) >= 3 /\ supStopPc["async"] \in {"actorStop", "wait", "returned"})
              => status = "Stopped"

\* four reports about one Permanent child have been handled and the
\* supervisor has stopped itself
C9_Witness ==
    /\ C9_Scenario
    /\ Len(handled) = 4
    /\ status = "Stopped"
    /\ supStopPc["async"] = "returned"

\* the handled (not ignored) reports up to the i-th that lie within the
\* window that ends at the i-th
ReportsInWindow(i) ==
    {j \in 1 .. i : /\ handled[j].result # "ignored"
                    /\ handled[j].at > handled[i].at - strategy.timeInterval}

\* C10: with max_restarts = M > 0 and terminate_on_max_restarts, a handled
\* report yields TooManyRestarts (and the status leaves Running for good)
\* exactly when more than M handled reports, itself included, lie within the
\* window; restart_history holds the reports within the window and no other.
C10_IntensityWindow ==
    (strategy.maxRestarts > 0 /\ strategy.terminateOnMaxRestarts) =>
        /\ \A i \in 1 .. Len(handled) :
              handled[i].result # "ignored" =>
                 (handled[i].result = "TooManyRestarts"
                     <=> Cardinality(ReportsInWindow(i)) > strategy.maxRestarts)
        /\ (\E i \in 1 .. Len(handled) : handled[i].result = "TooManyRestarts")
              <=> status \in {"Stopping", "Stopped"}
        /\ \A i \in 1 .. Len(handled) :
              (/\ handled[i].result # "ignored"
               /\ \A j \in i + 1 .. Len(handled) : handled[j].result = "ignored") =>
                  /\ Len(restartHistory) = Cardinality(ReportsInWindow(i))
                  /\ \A k \in 1 .. Len(restartHistory) :
                        \E j \in ReportsInWindow(i) : handled[j].at = restartHistory[k]

\* more than M reports were handled by restarts because the early ones had
\* left the window, and then the limit was exceeded within the window
C10_Witness ==
    /\ strategy.maxRestarts = 1
    /\ strategy.terminateOnMaxRestarts
    /\ Len(handled) = 3
    /\ handled[1].result = "restarted" /\ handled[1].at = 0
    /\ handled[2].result = "restarted" /\ handled[2].at = 1
    /\ handled[3].result = "TooManyRestarts"
    /\ restartHistory = <<1, 1>>
    /\ status = "Stopping"

(***************************************************************************)
(* Which children a handled failure replaces (SpecOrder).                  *)
(***************************************************************************)
\* a step in which the supervisor's worker handled a failure report
Handling == handled' # handled

\* the child the handled report is about, and the report's error
Failed == Head(supMailbox).childID
FailedErr == Head(supMailbox).err

\* in the step, id's actor and ActorRef are left as they were
Kept(id) ==
    /\ children'[id] = children[id]
    /\ childRefs'[id] = childRefs[id]
    /\ created'[id] = created[id]
    /\ (<<id, children[id]>> \in runningActors') = (<<id, children[id]>> \in runningActors)

\* in the step, id's actor and ActorRef are replaced by an actor made in
\* the step, which is running, and the actor id had before is stopped
Replaced(id) ==
    /\ children'[id] > created[id]
    /\ children'[id] = created'[id]
    /\ childRefs'[id] = children'[id]
    /\ <<id, children'[id]>> \in runningActors'
    /\ <<id, children[id]>> \notin runningActors'

Concerned(id) ==
    IF strategy.strategyType = "OneForAll" THEN childOrder
    ELSE LET at == {i \in 1 .. Len(childOrder) : childOrder[i] = id}
         IN  IF at = {} THEN <<>>
             ELSE SubSeq(childOrder, CHOOSE i \in at : \A j \in at : i <= j,
                         Len(childOrder))

C19_TemporaryStaysDropped ==
    [][Handling =>
         \A id \in Ids \ {Failed} :
            (childSpecs[id] = "Temporary" /\ children[id] = 0) =>
                /\ created'[id] = created[id]
                /\ children'[id] = 0
                /\ childRefs'[id] = 0
      ]_vars

\* C20: when a handling decides not to restart the failed child, the
\* child's actor is stopped by the end of the handling.
C20_DroppedActorStopped ==
    [][(Handling /\ Last(handled').result = "dropped" /\ children[Failed] # 0) =>
          <<Failed, children[Failed]>> \notin runningActors'
      ]_vars

C12_OutcomeReturned ==
    \A i \in 1 .. Len(handled) :
        IsError(handled[i].result) => handled[i].result \in notifyReturned

\* C13: once the breaker has opened and resetTimeout has passed, so that a
\* report finds it HalfOpen, successThreshold reports in a row that each end
\* in a successful restart leave the breaker Closed.
C13_RestartsCloseBreaker ==
    LET k == strategy.breaker.successThreshold
        n == Len(handled)
    IN  (/\ n >= k
         /\ \A j \in (n - k + 1) .. n : handled[j].result = "restarted"
         /\ handled[n - k + 1].gate = "HalfOpen") =>
            cb.state = "Closed"

(***************************************************************************)
(* The circuit breaker on its own (SpecBreaker).                           *)
(***************************************************************************)
\* the state the breaker was left in before call i
PriorState(i) == IF i = 1 THEN "Closed" ELSE cbCalls[i - 1].state

\* the calls that opened the breaker: it was not Open before, and is after
Openings == {i \in 1 .. Len(cbCalls) : cbCalls[i].state = "Open" /\ PriorState(i) # "Open"}

\* the time of the latest opening, read off the calls made so far
OpenedAt == cbCalls[CHOOSE i \in Openings : \A j \in Openings : j <= i].at

\* C14: ShouldAllow returns false while the breaker is Open and no more than
\* resetTimeout has passed since it opened; the first ShouldAllow or GetState
\* after more than resetTimeout admits and leaves the breaker HalfOpen, not
\* Closed; ShouldAllow returns true in Closed and HalfOpen.
C14_ShouldAllow ==
    [][cbCalls' # cbCalls =>
         LET c == Last(cbCalls')
             gate == c.op \in {"GetState", "ShouldAllow"}
             elapsed == now - OpenedAt > strategy.breaker.resetTimeout
         IN  /\ (gate /\ cb.state = "Open" /\ ~elapsed) =>
                    /\ cb'.state = "Open"
                    /\ c.result = (IF c.op = "ShouldAllow" THEN "false" ELSE "Open")
             /\ (gate /\ cb.state = "Open" /\ elapsed) =>
                    /\ cb'.state = "HalfOpen"
                    /\ c.result = (IF c.op = "ShouldAllow" THEN "true" ELSE "HalfOpen")
             /\ (gate /\ cb.state \in {"Closed", "HalfOpen"}) =>
                    /\ cb'.state = cb.state
                    /\ c.result = (IF c.op = "ShouldAllow" THEN "true" ELSE cb.state)
      ]_vars

\* ShouldAllow refused exactly resetTimeout after the opening, and a later
\* ShouldAllow admitted and left the breaker HalfOpen
C14_Witness ==
    \E i, j \in 1 .. Len(cbCalls) :
        /\ i < j
        /\ cbCalls[i].op = "ShouldAllow" /\ cbCalls[i].result = "false"
        /\ cbCalls[i].at = OpenedAt + strategy.breaker.resetTimeout
        /\ cbCalls[j].op = "ShouldAllow" /\ cbCalls[j].result = "true"
        /\ cbCalls[j].state = "HalfOpen"
        /\ PriorState(j) = "Open"

\* the calls that count for a streak: GetState and ShouldAllow record nothing
Recording(i) == cbCalls[i].op \in {"RecordFailure", "RecordSuccess", "Reset"}

\* the latest recording call before call i, 0 when there is none
PrevRecording(i) ==
    LET before == {j \in 1 .. i - 1 : Recording(j)}
    IN  IF before = {} THEN 0 ELSE CHOOSE j \in before : \A k \in before : k <= j

\* for a RecordFailure call i: the failures recorded up to and including it
\* with no RecordSuccess (or Reset) between them, each within failureWindow
\* of the one before
RECURSIVE FailureStreak(_)
FailureStreak(i) ==
    LET p == PrevRecording(i)
    IN  IF p = 0 THEN 1
        ELSE IF cbCalls[p].op # "RecordFailure" THEN 1
        ELSE IF cbCalls[i].at - cbCalls[p].at > strategy.breaker.failureWindow THEN 1
        ELSE 1 + FailureStreak(p)

\* C15: RecordFailure moves a Closed breaker to Open exactly when
\* tripThreshold failures have been recorded in a row: no RecordSuccess
\* between them and each within failureWindow of the previous one.
C15_OpensOnConsecutiveFailures ==
    \A i \in 1 .. Len(cbCalls) :
        (cbCalls[i].op = "RecordFailure" /\ PriorState(i) = "Closed") =>
            (cbCalls[i].state = "Open" <=>
                FailureStreak(i) >= strategy.breaker.tripThreshold)

\* the time of the latest opening before call i
OpenedAtBefore(i) ==
    LET os == {j \in Openings : j < i}
    IN  cbCalls[CHOOSE j \in os : \A k \in os : k <= j].at

\* for a RecordSuccess call i: the latest RecordFailure or Reset before it
LastFailureBefore(i) ==
    LET fs == {j \in 1 .. i - 1 : cbCalls[j].op \in {"RecordFailure", "Reset"}}
    IN  IF fs = {} THEN 0 ELSE CHOOSE j \in fs : \A k \in fs : k <= j

\* the RecordSuccess calls up to call i, made since the latest failure left
\* the breaker Open and after the breaker had been Open for longer than
\* resetTimeout
SuccessesAfterTimeout(i) ==
    LET f == LastFailureBefore(i)
    IN  IF f = 0 \/ cbCalls[f].state # "Open" THEN {}
        ELSE {j \in f + 1 .. i :
                /\ cbCalls[j].op = "RecordSuccess"
                /\ cbCalls[j].at - OpenedAtBefore(j) > strategy.breaker.resetTimeout}

\* C16: once the breaker has been Open for longer than resetTimeout,
\* successThreshold RecordSuccess calls with no failure between them leave it
\* Closed and fewer leave it HalfOpen, whether or not GetState or ShouldAllow
\* was called before the first of them.
C16_SuccessesClose ==
    \A i \in 1 .. Len(cbCalls) :
        cbCalls[i].op = "RecordSuccess" =>
            LET n == Cardinality(SuccessesAfterTimeout(i))
            IN  /\ n >= strategy.breaker.successThreshold => cbCalls[i].state = "Closed"
                /\ (n >= 1 /\ n < strategy.breaker.successThreshold) =>
                       cbCalls[i].state = "HalfOpen"

(***************************************************************************)
(* The ActorSystem, its monitor registry and its named registry.           *)
(***************************************************************************)
\* C21: a failure reported through System.NotifyFailure for an actor made by
\* SpawnActor reaches the root supervisor: once the call has returned nil
\* for a child of the root supervisor, a childFailureMessage for the child
\* is in the supervisor's mailbox or has been handled
C21_NotifyFailureReachesSupervisor ==
    \A i \in 1 .. Len(notified) :
        (notified[i].result = NoErr /\ notified[i].actorID \in Ids
            /\ children[notified[i].actorID] # 0) =>
            \/ \E j \in 1 .. Len(supMailbox) :
                   supMailbox[j].childID = notified[i].actorID
            \/ \E j \in 1 .. Len(handled) :
                   handled[j].childID = notified[i].actorID

\* b is in monitors[a] exactly when a is in monitoring[b], with the same kind
Consistent(g) ==
    \A a \in SysIds, b \in SysIds : g.monitors[a][b] = g.monitoring[b][a]

\* C22: after any sequence of Monitor, Demonitor and CleanupActor calls the
\* two maps describe the same graph, with the same kind on both sides, and
\* repeating a Monitor call changes nothing. (A pair has at most one edge
\* because the maps are keyed by the two ids.)
C22_MapsDescribeOneGraph ==
    /\ Consistent(Links)
    /\ \A m \in SysIds, t \in SysIds, k \in MonitorTypes :
           Monitor(Monitor(Links, m, t, k), m, t, k) = Monitor(Links, m, t, k)

\* a graph with links of both kinds from which links have been removed
C22_Witness ==
    /\ monitors["A"]["B"] = "OneWay"
    /\ monitors["B"]["A"] = None
    /\ monitors["B"]["C"] = "Bidirectional"
    /\ monitors["C"]["B"] = "Bidirectional"

\* C23: every edge tagged Bidirectional has its reverse edge, tagged
\* Bidirectional as well
C23_BidirectionalBothWays ==
    \A a \in SysIds, b \in SysIds :
        monitors[a][b] = "Bidirectional" => monitors[b][a] = "Bidirectional"

\* C24: Monitor(m, t, k) followed by Demonitor(m, t) gives back the graph it
\* started from, for both kinds and every graph in which m does not monitor t
C24_MonitorDemonitorRoundTrip ==
    \A m \in SysIds, t \in SysIds, k \in MonitorTypes :
        monitoring[m][t] = None =>
            Demonitor(Monitor(Links, m, t, k), m, t) = Links

\* the MonitorMessages about t that Send has put into m's mailbox
Delivered(m, t) ==
    {i \in 1 .. Len(sends) : sends[i].to = m /\ sends[i].about = t /\ sends[i].ok}

\* C25: when an actor with monitor links is stopped, every monitor whose link
\* existed at that moment receives a MonitorMessage that names the actor
C25_StopNotifiesMonitors ==
    (owed # {}) ~> (\A l \in owed : Delivered(l[1], l[2]) # {})

\* C26: a monitor receives at most one MonitorMessage about an actor for
\* each time a link between the two was made
C26_AtMostOncePerLink ==
    \A m \in Ids, t \in Ids :
        Cardinality(Delivered(m, t)) <= monitorCalls[m][t] + monitorCalls[t][m]

\* C27: whenever a MonitorMessage about an actor is sent, the actor is not
\* running
C27_NotifiedAfterTermination ==
    \A i \in 1 .. Len(sends) : ~sends[i].aboutRunning

\* the id has no name and no name leads to it
Nameless(id, r) ==
    /\ r.actorToName[id] = None
    /\ \A n \in Names : r.nameToActor[n] # NoRef => RefID(r.nameToActor[n]) # id

\* no edge mentions the id, in either map and either direction
Unlinked(id, g) ==
    \A x \in SysIds :
        /\ g.monitors[id][x] = None
        /\ g.monitors[x][id] = None
        /\ g.monitoring[id][x] = None
        /\ g.monitoring[x][id] = None

\* calls of System.Monitor on the pair, in either direction
PairCalls(calls, x, y) == calls[x][y] + calls[y][x]

\* C28: NotifyFailure(id) on a running system drops id's name, then removes
\* every edge that mentions id and returns nil, whatever its sends did; and
\* a later NotifyFailure sends nothing to id unless Monitor has linked the
\* two again
C28_NotifyFailureCleansUp ==
    [][/\ \A p \in Notifiers :
              (notifyPc[p] = "unregister" /\ notifyPc'[p] = "cleanup") =>
                  Nameless(notifyActor[p], [nameToActor |-> nameToActor',
                                            actorToName |-> actorToName'])
       /\ Len(notified') > Len(notified) =>
              /\ notified'[Len(notified')].result = NoErr
              /\ Unlinked(notified'[Len(notified')].actorID,
                          [monitors |-> monitors', monitoring |-> monitoring'])
       /\ Len(sends') > Len(sends) =>
              \A i \in 1 .. Len(notified) :
                  notified[i].actorID = sends'[Len(sends')].to =>
                      PairCalls(monitorCalls, sends'[Len(sends')].to,
                                sends'[Len(sends')].about)
                          > PairCalls(notified[i].monitorCalls,
                                      sends'[Len(sends')].to,
                                      sends'[Len(sends')].about)
      ]_vars

\* NotifyFailure("A") has returned after a send that failed, and the
\* NotifyFailure("B") that followed has returned and sent nothing to "A"
C28_Witness ==
    /\ Len(notified) = 2
    /\ notified[1].actorID = "A"
    /\ notified[2].actorID = "B"
    /\ \E i \in 1 .. Len(sends) : sends[i].about = "A" /\ ~sends[i].ok
    /\ \A i \in 1 .. Len(sends) : sends[i].to # "A"
    /\ monitorCalls["A"]["B"] = 1

\* name -> actor and actor -> name are inverse to each other
Inverse(r) ==
    /\ \A n \in Names :
           r.nameToActor[n] # NoRef => r.actorToName[RefID(r.nameToActor[n])] = n
    /\ \A id \in SysIds :
           r.actorToName[id] # None =>
               /\ r.nameToActor[r.actorToName[id]] # NoRef
               /\ RefID(r.nameToActor[r.actorToName[id]]) = id

C30_SpawnGenServerAllOrNothing ==
    /\ [](\A e \in gsSends : RefID(e.ref) \in GsIds => e.initCalled)
    /\ [][/\ spawnCall' # spawnCall =>
                 \/ nameToActor' = nameToActor /\ actorToName' = actorToName
                 \/ /\ Len(spawned') > Len(spawned)
                    /\ spawned'[Len(spawned')].result = NoErr
          /\ Len(spawned') > Len(spawned) =>
                 LET r == spawned'[Len(spawned')]
                 IN  IF r.result = NoErr
                     THEN /\ registry' = [registry EXCEPT ![r.id] = r.ref]
                          /\ r.name # NoName =>
                                 /\ nameToActor' = [nameToActor EXCEPT ![r.name] = r.ref]
                                 /\ actorToName' = [actorToName EXCEPT ![r.id] = r.name]
                     ELSE /\ registry' = [registry EXCEPT ![r.id] = NoRef]
                          /\ nameToActor' = nameToActor
                          /\ actorToName' = actorToName
         ]_vars

\* one SpawnGenServer call was refused because of its name, the next one went
\* through, and a message has been sent to the server
C30_Witness ==
    /\ \E i \in 1 .. Len(spawned) : spawned[i].result = "name is already registered"
    /\ \E i \in 1 .. Len(spawned) : spawned[i].result = NoErr /\ spawned[i].name # NoName
    /\ \E e \in gsSends : RefID(e.ref) \in GsIds

\* C39: a NotifyMonitors call that holds r.mu's read lock is never left
\* waiting behind a writer that itself waits for that read lock, so the call
\* can always go on to return
C39_ReaderNeverBehindItsWriter ==
    \A p \in Notifiers : notifyPc[p] = "getMonitors" => ~regStuck

\* C40: the MonitorMessage a monitor's receiver is handed names that monitor
\* in MonitorID and the actor NotifyFailure ran for in MonitoredID
C40_MessageNamesItsRecipient ==
    \A i \in 1..Len(processed) :
        /\ processed[i].MonitorID = processed[i].by
        /\ processed[i].MonitoredID = "A"

\* C37: once a failure report has exceeded max_restarts and a delayed retry
\* is pending, the supervisor, unless Stop is called, comes to rest: no
\* retry pending, no failure message waiting, status Running
C37_RetriesComeToRest ==
    (retries # <<>>) ~>
        \/ supStopPc["user"] # "none"
        \/ /\ retries = <<>>
           /\ supMailbox = <<>>
           /\ status = "Running"

\* C38: no step takes the status from Stopping to anything but Stopping or
\* Stopped, or from Stopped to anything but Stopped
C38_StoppedIsTerminal ==
    [][/\ status = "Stopping" => status' \in {"Stopping", "Stopped"}
       /\ status = "Stopped" => status' = "Stopped"]_vars

\* C34: the delay for a restart count is not negative, not longer than the
\* delay for the next count, and neither is longer than the maximum delay
C34_BackoffMonotonicAndClamped ==
    calc.pc = "done" =>
        /\ ~Negative64(calc.delay)
        /\ ~Less64(calc.nextDelay, calc.delay)
        /\ ~Less64(calc.maxBackoff, calc.nextDelay)

\* C33: when no call is in progress the breaker counts every RecordFailure
\* call that has returned since the last Reset, as every sequential order of
\* the calls would
C33_NoFailureLost ==
    (\A p \in Sharers : shPc[p] = "idle") => cb.failures = shRecorded

\* C31: over all Stop calls on one server TerminateFunc runs at most once,
\* with a nil reason, and no Stop call panics
C31_StopIdempotent ==
    /\ Len(srvTerminated) <= 1
    /\ \A i \in 1 .. Len(srvTerminated) : srvTerminated[i].reason = NoErr
    /\ \A k \in Stoppers : srvStopPc[k] # "panicked"

\* C36: once TerminateFunc has been called with state s, g.state is s and
\* no handler has finished since
C36_TerminateGetsFinalState ==
    /\ \A i \in 1 .. Len(srvTerminated) : srvTerminated[i].state = srvState
    /\ \A i \in 1 .. Len(srvHandled) : ~srvHandled[i].terminated

\* a handler has finished the message of call n of caller c
HandledCall(c, n) ==
    \E i \in 1 .. Len(srvHandled) :
        srvHandled[i].msg = [kind |-> "call", from |-> c, n |-> n]

\* call n of caller c has returned result
Returned(c, n, result) ==
    \E i \in 1 .. Len(callResults) :
        /\ callResults[i].from = c
        /\ callResults[i].n = n
        /\ callResults[i].result = result

\* C32: a MakeCallSync call whose timeout passes returns DeadlineExceeded
\* and leaves the server usable: every handler that has finished has
\* installed its state, the reply of every handled call was buffered for
\* its caller unless that caller has timed out, and every call that was
\* sent, timed out or not, is eventually handled
C32_TimeoutLeavesServerUsable ==
    /\ [](srvState = Len(srvHandled))
    /\ [](\A c \in Callers, n \in 1 .. MaxCalls :
             HandledCall(c, n) =>
                 \/ Returned(c, n, "DeadlineExceeded")
                 \/ Returned(c, n, NoErr)
                 \/ \E r \in srvReplies : r.from = c /\ r.n = n)
    /\ \A c \in Callers, n \in 1 .. MaxCalls :
          (callSeq[c] >= n) ~> HandledCall(c, n)

\* a call timed out before its handler finished, the handler finished all
\* the same, and a call made later got its reply
C32_Witness ==
    \E i \in 1 .. Len(srvHandled), a \in 1 .. Len(callResults),
       b \in 1 .. Len(callResults) :
        /\ srvHandled[i].msg.kind = "call"
        /\ ~srvHandled[i].waited
        /\ callResults[a].from = srvHandled[i].msg.from
        /\ callResults[a].n = srvHandled[i].msg.n
        /\ callResults[a].result = "DeadlineExceeded"
        /\ a < b
        /\ callResults[b].result = NoErr
        /\ callResults[b].reply > 0

\* C35: a broadcast makes exactly one send to each actor that has the type
\* or tag at that moment and none to any other, and it returns the
\* no-actors error exactly when no actor has it
C35_OneSendPerActor ==
    lastCast.kind # "none" =>
        /\ \A id \in Ids :
              Cardinality({i \in 1 .. Len(lastCast.sends) : lastCast.sends[i] = id})
                 = IF id \in lastCast.targets THEN 1 ELSE 0
        /\ lastCast.result # NoErr <=> lastCast.targets = {}

====
